---- MODULE Spec2Model ----
(***************************************************************************)
(* FlashMRM: the lazy partition loader (data_loader.py), the ion-pair      *)
(* optimizers (ion_optimizer.py, interference_calculator.py) and the run   *)
(* loop (mrm_optimizer.py), as a state machine.                            *)
(*                                                                         *)
(* Strings are sequences of one-character strings.  Masses are integers in *)
(* units of 0.0001 (100.0 is 1000000), retention times in units of 0.1     *)
(* minute, intensities, CE and NCE are integers.  A pandas frame is a      *)
(* record [cols, rows]: pd.DataFrame() has cols = FALSE and no rows, so a  *)
(* column access on it raises KeyError.                                    *)
(***************************************************************************)
EXTENDS Integers, Sequences, FiniteSets, TLC

VARIABLES
    pesudo,                \* the folder config.PESUDO_TQDB_PATH: [exists, parts]
    intf,                  \* the folder config.INTF_TQDB_PATH: [exists, parts]
    cache,                 \* the pickle file _get_index_path(PESUDO_TQDB_PATH)
    file_indexes,          \* LazyFileLoader.file_indexes[PESUDO_TQDB_PATH]
    lookups,               \* the last calls of query_by_inchikey, newest first
    config,                \* the Config fields the run reads
    compounds_to_process,  \* run_optimization: the targets of the loop
    i,                     \* run_optimization: compounds iterated so far
    results,               \* run_optimization: the results list
    processed_count,       \* run_optimization: counter of appended results
    error_count,           \* run_optimization: counter of skipped / failed
    checkpoints,           \* the intermediate csv files written, oldest first
    output,                \* the file config.OUTPUT_PATH
    pc,                    \* position of run_optimization
    trace,                 \* process_compound_*: the stages of the last call
    scan,                  \* query_interference_by_range: the locals of a running call
    msms_cache             \* InterferenceCalculatorQE._msms_cache: set of [key, value]

vars == <<pesudo, intf, cache, file_indexes, lookups, config,
          compounds_to_process, i, results, processed_count, error_count,
          checkpoints, output, pc, trace, scan, msms_cache>>

loaderVars == <<pesudo, cache, file_indexes, lookups>>
runVars == <<config, compounds_to_process, i, results, processed_count,
             error_count, checkpoints, output, pc>>

(***************************************************************************)
(* Bounds of the model.                                                    *)
(***************************************************************************)
MaxRows == 2        \* rows of a drawn fragment library, over all partitions
ChunkRows == 1      \* rows per chunk of pd.read_csv(chunksize=...)

(***************************************************************************)
(* Strings: str.strip, str.lower, str.replace and the regex \s+.           *)
(***************************************************************************)
Whitespace == {" ", "\t", "\n", "\f"}
ChainWhitespace == {" ", "\t", "\n"}

LowerChar(c) ==
    CASE c = "A" -> "a"
      [] c = "B" -> "b"
      [] c = "N" -> "n"
      [] OTHER -> c

StrLower(s) == [n \in 1..Len(s) |-> LowerChar(s[n])]

RECURSIVE LStrip(_)
LStrip(s) == IF s # <<>> /\ Head(s) \in Whitespace THEN LStrip(Tail(s)) ELSE s

RECURSIVE RStrip(_)
RStrip(s) ==
    IF s # <<>> /\ s[Len(s)] \in Whitespace
    THEN RStrip(SubSeq(s, 1, Len(s) - 1))
    ELSE s

StrStrip(s) == RStrip(LStrip(s))

StrRemove(s, chars) == SelectSeq(s, LAMBDA c : c \notin chars)

\* chunk['InChIKey'].str.replace(r'\s+', '', regex=True)
RegexClean(s) == StrRemove(s, Whitespace)

\* inchikey.replace(' ', '').replace('\t', '').replace('\n', '')
ChainClean(s) == StrRemove(s, ChainWhitespace)

\* A missing cell is NaN; astype(str) makes it the string 'nan'.
NaNCell == <<"NaN">>
NanStr == <<"n", "a", "n">>
NoneStr == <<"n", "o", "n", "e">>
AsStr(cell) == IF cell = NaNCell THEN NanStr ELSE cell

\* if inchikey and inchikey != 'nan' and inchikey.lower() != 'none'
Indexable(s) == s # <<>> /\ s # NanStr /\ StrLower(s) # NoneStr

\* F(v), with v evaluated once: a local name bound to a value
Let(v, F(_)) == CHOOSE y \in {F(x) : x \in {v}} : TRUE

Min(S) == CHOOSE x \in S : \A y \in S : x <= y
Max(S) == CHOOSE x \in S : \A y \in S : x >= y

\* pandas unique(): the distinct values in order of first appearance
RECURSIVE Unique(_)
Unique(s) ==
    IF s = <<>> THEN <<>>
    ELSE LET r == Unique(SubSeq(s, 1, Len(s) - 1))
             x == s[Len(s)]
         IN IF \E n \in 1..Len(r) : r[n] = x THEN r ELSE Append(r, x)

(***************************************************************************)
(* The index: a dict in insertion order, key -> list of locations.  A      *)
(* location is a path string, or (in the old format) a (path, offset)      *)
(* tuple; a value that is no list has t = "other".                         *)
(***************************************************************************)
StrLoc(path) == [t |-> "str", path |-> path, off |-> 0]
TupleLoc(path, off) == [t |-> "tuple", path |-> path, off |-> off]
ListVal(items) == [t |-> "list", items |-> items]
OtherVal == [t |-> "other", items |-> <<>>]

IndexHas(index, k) == \E n \in 1..Len(index) : index[n].key = k
IndexPos(index, k) == CHOOSE n \in 1..Len(index) : index[n].key = k
IndexGet(index, k) == index[IndexPos(index, k)].val

\* a variant of IndexAdd that records only the first partition of a key
IndexAdd_FirstPathOnly(index, k, path) ==
    IF IndexHas(index, k) THEN index
    ELSE Append(index, [key |-> k, val |-> ListVal(<<StrLoc(path)>>)])

\* if k not in index: index[k] = []; if file_path not in index[k]: append
IndexAdd(index, k, path) ==
    LET idx1 == IF IndexHas(index, k) THEN index
                ELSE Append(index, [key |-> k, val |-> ListVal(<<>>)])
        n == IndexPos(idx1, k)
        items == idx1[n].val.items
    IN IF \E j \in 1..Len(items) : items[j] = StrLoc(path) THEN idx1
       ELSE [idx1 EXCEPT ![n].val.items = Append(items, StrLoc(path))]

\* the body of the first loop, one unique stripped key
IndexOriginal(index, path, key0) ==
    LET k == StrStrip(key0)
        kc == ChainClean(k)
    IN IF ~Indexable(k) THEN index
       ELSE LET idx1 == IndexAdd(index, k, path)
            IN IF kc # k /\ kc # <<>> THEN IndexAdd(idx1, kc, path) ELSE idx1

\* the body of the second loop, one unique cleaned key
IndexCleaned(index, path, key0) ==
    LET k == StrStrip(key0)
    IN IF Indexable(k) THEN IndexAdd(index, k, path) ELSE index

RECURSIVE FoldKeys(_, _, _, _)
FoldKeys(Op(_, _, _), index, path, keys) ==
    IF keys = <<>> THEN index
    ELSE Let(Op(index, path, Head(keys)),
             LAMBDA idx1 : FoldKeys(Op, idx1, path, Tail(keys)))

\* the chunks pd.read_csv(chunksize=...) yields for a partition's rows
RECURSIVE Chunks(_)
Chunks(rows) ==
    IF rows = <<>> THEN <<>>
    ELSE IF Len(rows) <= ChunkRows THEN <<rows>>
    ELSE <<SubSeq(rows, 1, ChunkRows)>> \o Chunks(SubSeq(rows, ChunkRows + 1, Len(rows)))

StrippedKeys(chunk) == [n \in 1..Len(chunk) |-> StrStrip(AsStr(chunk[n].InChIKey))]
CleanedKeys(chunk) == [n \in 1..Len(chunk) |-> RegexClean(StrStrip(AsStr(chunk[n].InChIKey)))]

\* one chunk of one partition
IndexChunk(index, path, chunk) ==
    Let(FoldKeys(IndexOriginal, index, path, Unique(StrippedKeys(chunk))),
        LAMBDA idx1 : FoldKeys(IndexCleaned, idx1, path, Unique(CleanedKeys(chunk))))

RECURSIVE IndexChunks(_, _, _)
IndexChunks(index, path, chunks) ==
    IF chunks = <<>> THEN index
    ELSE Let(IndexChunk(index, path, Head(chunks)),
             LAMBDA idx1 : IndexChunks(idx1, path, Tail(chunks)))

\* 'InChIKey' in chunk.columns: the columns of a partition are those of the
\* coverage method ("nist": InChIKey, PrecursorMZ, RT, MSMS, NCE, CE, Ion_mode,
\* Precursor_type) or of the overlap method ("qe": Alignment ID, Average Mz,
\* Average Rt(min), CE, MS/MS spectrum)
HasKeyColumn(part) == part.shape = "nist"

\* one partition: an unreadable one is logged and skipped, and so is one
\* without the InChIKey column
IndexPartition(index, part) ==
    IF ~part.readable \/ ~HasKeyColumn(part) THEN index
    ELSE IndexChunks(index, part.name, Chunks(part.rows))

RECURSIVE IndexPartitions(_, _)
IndexPartitions(index, parts) ==
    IF parts = <<>> THEN index
    ELSE Let(IndexPartition(index, Head(parts)),
             LAMBDA idx1 : IndexPartitions(idx1, Tail(parts)))

(***************************************************************************)
(* The cache file and _build_file_index.                                   *)
(***************************************************************************)
NoFile == [t |-> "absent", entries |-> <<>>]
DictFile(entries) == [t |-> "dict", entries |-> entries]
OtherFile == [t |-> "other", entries |-> <<>>]        \* a pickle of no dict
CorruptFile == [t |-> "corrupt", entries |-> <<>>]    \* pickle.load raises

\* the format check by the first key, lines 123-139
CacheAccepted(file) ==
    /\ file.t = "dict"
    /\ Len(file.entries) > 0
    /\ file.entries[1].val.t = "list"
    /\ Len(file.entries[1].val.items) > 0
    /\ file.entries[1].val.items[1].t = "str"

\* a variant of BuildFileIndex that persists the index as it was before the
\* last partition was indexed
BuildFileIndex_PersistsEarly(file, folder) ==
    IF CacheAccepted(file)
    THEN [raised |-> FALSE, index |-> file.entries, cache |-> file]
    ELSE IF ~folder.exists
    THEN [raised |-> TRUE, index |-> <<>>, cache |-> NoFile]
    ELSE [raised |-> FALSE, index |-> IndexPartitions(<<>>, folder.parts),
          cache |-> DictFile(IndexPartitions(<<>>,
                        SubSeq(folder.parts, 1, Len(folder.parts) - 1)))]

\* _build_file_index: [raised, index, cache].  os.listdir raises for a
\* folder that does not exist, after a refused cache was removed.
BuildFileIndex(file, folder) ==
    IF CacheAccepted(file)
    THEN [raised |-> FALSE, index |-> file.entries, cache |-> file]
    ELSE LET removed == IF file.t = "dict" /\ Len(file.entries) = 0 THEN file
                        ELSE IF file.t = "other" THEN file
                        ELSE NoFile
         IN IF ~folder.exists
            THEN [raised |-> TRUE, index |-> <<>>, cache |-> removed]
            ELSE LET index == IndexPartitions(<<>>, folder.parts)
                 IN [raised |-> FALSE, index |-> index, cache |-> DictFile(index)]

(***************************************************************************)
(* query_by_inchikey.                                                      *)
(***************************************************************************)
EmptyFrame == [cols |-> FALSE, rows |-> <<>>]
Frame(rows) == [cols |-> TRUE, rows |-> rows]

\* s occurs in t, Python's "s in t"
IsSubstr(s, t) == \E n \in 0..(Len(t) - Len(s)) : SubSeq(t, n + 1, n + Len(s)) = s

\* a variant of ResolveKey that also takes the first "similar" key, one
\* that contains the query key or is contained in it
ResolveKey_Similar(index, inchikey) ==
    IF IndexHas(index, inchikey) THEN [found |-> TRUE, key |-> inchikey]
    ELSE LET lower == StrLower(inchikey)
             hits == {n \in 1..Len(index) :
                        \/ IsSubstr(lower, StrLower(StrStrip(index[n].key)))
                        \/ IsSubstr(StrLower(StrStrip(index[n].key)), lower)}
         IN IF hits = {} THEN [found |-> FALSE, key |-> inchikey]
            ELSE [found |-> TRUE, key |-> StrStrip(index[Min(hits)].key)]

\* lines 219-246: the exact key, else the first index key equal to it
\* case-insensitively
ResolveKey(index, inchikey) ==
    IF IndexHas(index, inchikey) THEN [found |-> TRUE, key |-> inchikey]
    ELSE LET lower == StrLower(inchikey)
             hits == {n \in 1..Len(index) : StrLower(StrStrip(index[n].key)) = lower}
         IN IF hits = {} THEN [found |-> FALSE, key |-> inchikey]
            ELSE [found |-> TRUE, key |-> StrStrip(index[Min(hits)].key)]

\* a variant of RowMatches that keeps every row of a partition that is read
RowMatches_Unfiltered(row, inchikey) == TRUE

\* the mask of lines 267-271 on one row
RowMatches(row, inchikey) ==
    LET stored == StrStrip(AsStr(row.InChIKey))
    IN \/ stored = inchikey
       \/ RegexClean(stored) = ChainClean(inchikey)
       \/ StrLower(stored) = StrLower(inchikey)

PartNamed(folder, path) ==
    LET hits == {n \in 1..Len(folder.parts) : folder.parts[n].name = path}
    IN IF hits = {} THEN [name |-> path, readable |-> FALSE, shape |-> "nist", rows |-> <<>>]
       ELSE folder.parts[Min(hits)]

\* a variant of RowsOfLocation in which one partition that cannot be read
\* fails the whole lookup: no location contributes any row
RowsOfLocation_AllOrNothing(folder, loc, inchikey) ==
    LET part == PartNamed(folder, loc.path)
    IN IF \E n \in 1..Len(folder.parts) : ~folder.parts[n].readable THEN <<>>
       ELSE IF loc.t # "str" \/ ~folder.exists \/ ~part.readable \/ ~HasKeyColumn(part) THEN <<>>
       ELSE SelectSeq(part.rows, LAMBDA row : RowMatches(row, inchikey))

\* the rows one location contributes, lines 253-290
RowsOfLocation(folder, loc, inchikey) ==
    LET part == PartNamed(folder, loc.path)
    IN IF loc.t # "str" \/ ~folder.exists \/ ~part.readable \/ ~HasKeyColumn(part) THEN <<>>
       ELSE SelectSeq(part.rows, LAMBDA row : RowMatches(row, inchikey))

RECURSIVE RowsOfLocations(_, _, _)
RowsOfLocations(folder, locs, inchikey) ==
    IF locs = <<>> THEN <<>>
    ELSE RowsOfLocation(folder, Head(locs), inchikey)
           \o RowsOfLocations(folder, Tail(locs), inchikey)

\* the query against a built index: [raised, frame].  A resolved key that
\* is no key of the index is a KeyError, a value that is no list a TypeError.
QueryIndex(index, folder, inchikey0) ==
    LET r == ResolveKey(index, StrStrip(inchikey0))
    IN IF ~r.found THEN [raised |-> FALSE, frame |-> EmptyFrame]
       ELSE IF ~IndexHas(index, r.key) \/ IndexGet(index, r.key).t # "list"
       THEN [raised |-> TRUE, frame |-> EmptyFrame]
       ELSE LET rows == RowsOfLocations(folder, IndexGet(index, r.key).items, r.key)
            IN [raised |-> FALSE,
                frame |-> IF rows = <<>> THEN EmptyFrame ELSE Frame(rows)]

\* the partitions _build_file_index calls pd.read_csv on, line 157
BuildReads(file, folder) ==
    IF CacheAccepted(file) \/ ~folder.exists THEN <<>>
    ELSE [p \in 1..Len(folder.parts) |-> folder.parts[p].name]

\* the partitions the lookup calls pd.read_csv on, lines 253-257: the path
\* strings listed under the resolved key
LookupReads(index, inchikey0) ==
    LET r == ResolveKey(index, StrStrip(inchikey0))
    IN IF ~r.found \/ ~IndexHas(index, r.key) \/ IndexGet(index, r.key).t # "list"
       THEN <<>>
       ELSE LET strs == SelectSeq(IndexGet(index, r.key).items, LAMBDA loc : loc.t = "str")
            IN [n \in 1..Len(strs) |-> strs[n].path]

\* query_by_inchikey with its index cache: [raised, frame, file_indexes,
\* cache, reads], reads being the partitions the call read
NoIndex == [built |-> FALSE, index |-> <<>>]
QueryByInchikey(fi, file, folder, inchikey) ==
    LET b == IF fi.built THEN [raised |-> FALSE, index |-> fi.index, cache |-> file]
             ELSE BuildFileIndex(file, folder)
        built == IF fi.built THEN <<>> ELSE BuildReads(file, folder)
    IN IF b.raised
       THEN [raised |-> TRUE, frame |-> EmptyFrame, file_indexes |-> fi, cache |-> b.cache,
             reads |-> built]
       ELSE LET q == QueryIndex(b.index, folder, inchikey)
            IN [raised |-> q.raised, frame |-> q.frame,
                file_indexes |-> [built |-> TRUE, index |-> b.index],
                cache |-> b.cache,
                reads |-> built \o LookupReads(b.index, inchikey)]

(***************************************************************************)
(* Program constants, in the units of the model.                           *)
(***************************************************************************)
PRECURSOR_MZ_MIN_DIFF == 140126    \* 14.0126
ION_PAIR_MIN_DIFF == 20000         \* 2.0
NIST_PAIR_MIN_DIFF == 20000        \* the literal 2.0 of the coverage method
MSMS_DEDUP_TOLERANCE == 10         \* msms_tolerance = 0.001
HIT_TOLERANCE == 10000             \* the literal 1 of process_ce_range
MZ_TOLERANCE == 7000               \* 0.7
NIST_MZ_TOLERANCE == 7000          \* the literal 0.7 of process_compound_nist
MSMS_TOLERANCE == 7000             \* 0.7
RT_TOLERANCE == 20                 \* 2.0 minutes
RT_OFFSET == 0
MAX_IONS_PER_CE == 10
NIST_IONS_PER_TIER == 10           \* head(10)
TOP_QE == 5                        \* nlargest(5, 'score')
TOP_NIST == 10                     \* nlargest(10, 'score')
SENSITIVITY_WEIGHT == 1            \* 0.5, in units of 1 / WEIGHT_UNIT
SPECIFICITY_WEIGHT == 1            \* 0.5, in units of 1 / WEIGHT_UNIT
WEIGHT_UNIT == 2
CE_LOW == 20
CE_MEDIUM == 40
NCE_LOW == 60
NCE_MEDIUM == 120
CE_SLOPE == 5788                   \* 0.5788, in units of 0.0001
CE_INTERCEPT == 94452              \* 9.4452, in units of 0.0001

(***************************************************************************)
(* Frames: sort_values, drop_duplicates, head; rationals.                  *)
(***************************************************************************)
Abs(x) == IF x < 0 THEN -x ELSE x

\* a rational <<n, d>> with d > 0: the scores, which the code holds as floats
\* (scores of one frame share their denominator and are compared by numerator)
RatLE(a, b) == IF a[2] = b[2] THEN a[1] <= b[1] ELSE a[1] * b[2] <= b[1] * a[2]
RatEq(a, b) == IF a[2] = b[2] THEN a[1] = b[1] ELSE a[1] * b[2] = b[1] * a[2]

RECURSIVE SumSeq(_)
SumSeq(s) == IF s = <<>> THEN 0 ELSE Head(s) + SumSeq(Tail(s))

FirstN(s, n) == SubSeq(s, 1, IF Len(s) < n THEN Len(s) ELSE n)

\* sort_values('intensity', ascending=False): rows of equal intensity keep
\* their order
RECURSIVE SortByIntensity(_)
SortByIntensity(rows) ==
    IF rows = <<>> THEN <<>>
    ELSE Let(SortByIntensity(SubSeq(rows, 1, Len(rows) - 1)), LAMBDA r :
         LET x == rows[Len(rows)]
             k == Cardinality({n \in 1..Len(r) : r[n].intensity >= x.intensity})
         IN SubSeq(r, 1, k) \o <<x>> \o SubSeq(r, k + 1, Len(r)))

\* drop_duplicates([name_col, 'MSMS'], keep='first')
RECURSIVE DropDuplicateIons(_)
DropDuplicateIons(rows) ==
    IF rows = <<>> THEN <<>>
    ELSE Let(DropDuplicateIons(SubSeq(rows, 1, Len(rows) - 1)), LAMBDA r :
         LET x == rows[Len(rows)]
         IN IF \E n \in 1..Len(r) : r[n].Name = x.Name /\ r[n].MSMS = x.MSMS
            THEN r ELSE Append(r, x))

\* combinations(range(n), 2), in the order of itertools
RECURSIVE PairsFrom(_, _, _)
PairsFrom(a, b, n) ==
    IF a >= n THEN <<>>
    ELSE IF b > n THEN PairsFrom(a + 1, a + 2, n)
    ELSE <<<<a, b>>>> \o PairsFrom(a, b + 1, n)
Combinations2(n) == PairsFrom(1, 2, n)

Candidate(row1, row2) ==
    [MSMS1 |-> row1.MSMS, intensity1 |-> row1.intensity, NCE1 |-> row1.NCE, CE1 |-> row1.CE,
     MSMS2 |-> row2.MSMS, intensity2 |-> row2.intensity, NCE2 |-> row2.NCE, CE2 |-> row2.CE]

\* the pairs of the combinations that pass the separation test
PairsOf(ions, min_diff) ==
    LET ok == SelectSeq(Combinations2(Len(ions)),
                  LAMBDA c : /\ ions[c[1]].MSMS # ions[c[2]].MSMS
                             /\ Abs(ions[c[1]].MSMS - ions[c[2]].MSMS) >= min_diff)
    IN [n \in 1..Len(ok) |-> Candidate(ions[ok[n][1]], ions[ok[n][2]])]

(***************************************************************************)
(* IonPairOptimizerQE (the overlap method).                                *)
(***************************************************************************)
CETier(ce) == IF ce <= CE_LOW THEN "low" ELSE IF ce <= CE_MEDIUM THEN "medium" ELSE "high"
NCETier(nce) == IF nce <= NCE_LOW THEN "low" ELSE IF nce <= NCE_MEDIUM THEN "medium" ELSE "high"

RankTierQE(rows, tier) ==
    FirstN(DropDuplicateIons(SortByIntensity(
        SelectSeq(rows, LAMBDA r : CETier(r.CE) = tier))), MAX_IONS_PER_CE)

FilterAndRankIonsQE(rows) ==
    RankTierQE(rows, "low") \o RankTierQE(rows, "medium") \o RankTierQE(rows, "high")

\* a variant of GenerateIonPairsQE that pairs a single ion with itself
GenerateIonPairsQE_PairsSingle(ions) ==
    IF Len(ions) = 1 THEN <<Candidate(ions[1], ions[1])>>
    ELSE PairsOf(ions, ION_PAIR_MIN_DIFF)

GenerateIonPairsQE(ions) ==
    IF Len(ions) < 2 THEN <<>> ELSE PairsOf(ions, ION_PAIR_MIN_DIFF)

\* extract_intensity_from_msms_cached: the intensities of the peaks within
\* MSMS_TOLERANCE of the target
ExtractIntensity(spectrum, target_ion) ==
    SumSeq([n \in 1..Len(spectrum) |->
              IF Abs(spectrum[n].mz - target_ion) <= MSMS_TOLERANCE
              THEN spectrum[n].intensity ELSE 0])

InterferenceLevel(rows, target_ion) ==
    SumSeq([n \in 1..Len(rows) |-> ExtractIntensity(rows[n].spectrum, target_ion)])

(***************************************************************************)
(* extract_intensity_from_msms_cached.  The text of an 'MS/MS spectrum'    *)
(* cell is a sequence of lexemes: Num(n), the decimal text of a number, or *)
(* Sym(c) with c one of " ", ":", "_" or a letter.  No text has two        *)
(* numbers joined by "_" alone (float() reads such a part as one number).  *)
(***************************************************************************)
Num(n) == [k |-> "n", v |-> n]
Sym(c) == [k |-> c, v |-> 0]
IsNumber(x) == x.k = "n"

RECURSIVE ConcatPeaks(_)
ConcatPeaks(seqs) == IF seqs = <<>> THEN <<>> ELSE Head(seqs) \o ConcatPeaks(Tail(seqs))

\* msms_spectrum.split(): the words between the runs of whitespace
RECURSIVE SplitWords(_, _, _)
SplitWords(text, n, word) ==
    IF n > Len(text) THEN (IF word = <<>> THEN <<>> ELSE <<word>>)
    ELSE IF text[n] = Sym(" ")
         THEN (IF word = <<>> THEN <<>> ELSE <<word>>) \o SplitWords(text, n + 1, <<>>)
         ELSE SplitWords(text, n + 1, Append(word, text[n]))

\* float(part): a part that is one number; anything else raises ValueError
IsFloat(part) == Len(part) = 1 /\ IsNumber(part[1])

\* lines 36-46 on one word: the peak it adds to the sum, if any
ParsePeak(word) ==
    LET colons == {n \in 1..Len(word) : word[n] = Sym(":")}
    IN IF colons = {} THEN <<>>
       ELSE LET c == Min(colons)
                mz == SubSeq(word, 1, c - 1)
                intensity == SubSeq(word, c + 1, Len(word))
            IN IF IsFloat(mz) /\ IsFloat(intensity)
               THEN <<[mz |-> mz[1].v, intensity |-> intensity[1].v]>>
               ELSE <<>>

\* the peaks of a text, in order
ParsePeaks(text) ==
    LET words == SplitWords(text, 1, <<>>)
    IN ConcatPeaks([w \in 1..Len(words) |-> ParsePeak(words[w])])

\* a variant of CacheKey that leaves the target out of the key
CacheKey_SpectrumOnly(msms_spectrum, target_ion) == msms_spectrum

\* f"{msms_spectrum}_{target_ion}": the text, "_" and the text of the float,
\* which is one number
CacheKey(msms_spectrum, target_ion) == msms_spectrum \o <<Sym("_"), Num(target_ion)>>

CacheHas(c, key) == \E e \in c : e.key = key
CacheGet(c, key) == (CHOOSE e \in c : e.key = key).value
\* self._msms_cache[key] = value
CachePut(c, key, value) == {e \in c : e.key # key} \cup {[key |-> key, value |-> value]}

\* extract_intensity_from_msms_cached(msms_spectrum, target_ion) with the
\* cache c: [value, cache]
ExtractIntensityCached(c, msms_spectrum, target_ion) ==
    IF msms_spectrum = NaNCell \/ msms_spectrum = <<>>
    THEN [value |-> 0, cache |-> c]
    ELSE Let(CacheKey(msms_spectrum, target_ion), LAMBDA cache_key :
         IF CacheHas(c, cache_key)
         THEN [value |-> CacheGet(c, cache_key), cache |-> c]
         ELSE Let(ExtractIntensity(ParsePeaks(msms_spectrum), target_ion),
                  LAMBDA total_intensity :
                      [value |-> total_intensity,
                       cache |-> CachePut(c, cache_key, total_intensity)]))

\* the score of a rational sensitivity and a rational specificity
WeightedScore(sens, spec) ==
    <<SENSITIVITY_WEIGHT * sens[1] * spec[2] + SPECIFICITY_WEIGHT * spec[1] * sens[2],
      WEIGHT_UNIT * sens[2] * spec[2]>>

\* a variant of CalculateScoresQE that falls back only when both maxima are 0
CalculateScoresQE_FallbackWhenBothZero(cands, tiers) ==
    LET level1(c) == InterferenceLevel(tiers[CETier(c.CE1)], c.MSMS1)
        level2(c) == InterferenceLevel(tiers[CETier(c.CE2)], c.MSMS2)
        isum(c) == c.intensity1 + c.intensity2
        lsum(c) == level1(c) + level2(c)
        max_intensity == Max({isum(cands[n]) : n \in 1..Len(cands)})
        max_interference == Max({lsum(cands[n]) : n \in 1..Len(cands)})
        normal == max_intensity > 0 \/ max_interference > 0
        sens(c) == IF normal THEN <<isum(c), max_intensity>> ELSE <<isum(c), 1>>
        spec(c) == IF normal THEN <<-(1 + lsum(c)), 1 + max_interference>>
                   ELSE <<-lsum(c), 1>>
    IN [n \in 1..Len(cands) |->
          [pair |-> cands[n],
           hit_num |-> 0,
           hit_rate |-> <<0, 1>>,
           interference_level_sum |-> lsum(cands[n]),
           intensity_sum |-> isum(cands[n]),
           fallback |-> ~normal,
           sensitivity_score |-> sens(cands[n]),
           specificity_score |-> spec(cands[n]),
           score |-> IF normal THEN WeightedScore(sens(cands[n]), spec(cands[n]))
                     ELSE <<isum(cands[n]), 1>>]]

\* calculate_scores of the overlap method; intf is [low, medium, high], the
\* rows of the three CE tiers
CalculateScoresQE(cands, tiers) ==
    LET level1(c) == InterferenceLevel(tiers[CETier(c.CE1)], c.MSMS1)
        level2(c) == InterferenceLevel(tiers[CETier(c.CE2)], c.MSMS2)
        isum(c) == c.intensity1 + c.intensity2
        lsum(c) == level1(c) + level2(c)
        max_intensity == Max({isum(cands[n]) : n \in 1..Len(cands)})
        max_interference == Max({lsum(cands[n]) : n \in 1..Len(cands)})
        normal == max_intensity > 0 /\ max_interference > 0
        sens(c) == IF normal THEN <<isum(c), max_intensity>> ELSE <<isum(c), 1>>
        spec(c) == IF normal THEN <<-(1 + lsum(c)), 1 + max_interference>>
                   ELSE <<-lsum(c), 1>>
    IN [n \in 1..Len(cands) |->
          [pair |-> cands[n],
           hit_num |-> 0,
           hit_rate |-> <<0, 1>>,
           interference_level_sum |-> lsum(cands[n]),
           intensity_sum |-> isum(cands[n]),
           fallback |-> ~normal,
           sensitivity_score |-> sens(cands[n]),
           specificity_score |-> spec(cands[n]),
           score |-> IF normal THEN WeightedScore(sens(cands[n]), spec(cands[n]))
                     ELSE <<isum(cands[n]), 1>>]]

\* tuple(sorted([MSMS1, MSMS2]))
MSMSCombined(s) ==
    IF s.pair.MSMS1 <= s.pair.MSMS2 THEN <<s.pair.MSMS1, s.pair.MSMS2>>
    ELSE <<s.pair.MSMS2, s.pair.MSMS1>>

TupleLess(a, b) == a[1] < b[1] \/ (a[1] = b[1] /\ a[2] < b[2])

RECURSIVE SortedTuples(_)
SortedTuples(S) ==
    IF S = {} THEN <<>>
    ELSE LET m == CHOOSE x \in S : \A y \in S : x = y \/ TupleLess(x, y)
         IN <<m>> \o SortedTuples(S \ {m})

\* idxmax: the first position of a maximal score among the positions P
IdxMax(scored, P) ==
    Min({n \in P : \A m \in P : RatLE(scored[m].score, scored[n].score)})

\* nlargest(n, 'score'): by score, descending, equal scores in their order
RECURSIVE SortByScore(_)
SortByScore(scored) ==
    IF scored = <<>> THEN <<>>
    ELSE LET r == SortByScore(SubSeq(scored, 1, Len(scored) - 1))
             x == scored[Len(scored)]
             k == Cardinality({n \in 1..Len(r) : RatLE(x.score, r[n].score)})
         IN SubSeq(r, 1, k) \o <<x>> \o SubSeq(r, k + 1, Len(r))

\* a variant of DedupQE that drops nothing
DedupQE_KeepAll(scored) == scored

\* groupby('MSMS_combined')['score'].idxmax(): one row per group, the groups
\* in the order of their keys
DedupQE(scored) ==
    LET keys == SortedTuples({MSMSCombined(scored[n]) : n \in 1..Len(scored)})
        group(k) == {n \in 1..Len(scored) : MSMSCombined(scored[n]) = k}
    IN [g \in 1..Len(keys) |-> scored[IdxMax(scored, group(keys[g]))]]

\* select_best_pairs: [survivors, max_row, top]
SelectBestPairsQE(scored) ==
    LET survivors == DedupQE(scored)
    IN [survivors |-> survivors,
        max_row |-> survivors[IdxMax(survivors, 1..Len(survivors))],
        top |-> FirstN(SortByScore(survivors), TOP_QE)]

(***************************************************************************)
(* IonPairOptimizerNIST and InterferenceCalculatorNIST (the coverage       *)
(* method).                                                                *)
(***************************************************************************)
\* a variant of RankTierNIST that cuts to the first ten without sorting
RankTierNIST_Unsorted(rows, tier) ==
    FirstN(DropDuplicateIons(SelectSeq(rows, LAMBDA r : NCETier(r.NCE) = tier)),
           NIST_IONS_PER_TIER)

RankTierNIST(rows, tier) ==
    FirstN(DropDuplicateIons(SortByIntensity(
        SelectSeq(rows, LAMBDA r : NCETier(r.NCE) = tier))), NIST_IONS_PER_TIER)

FilterAndRankIonsNIST(rows) ==
    RankTierNIST(rows, "low") \o RankTierNIST(rows, "medium") \o RankTierNIST(rows, "high")

\* the suppression of the ions within 0.001 of an ion already accepted
\* a variant of UniqueIons that accepts every ion
UniqueIons_AcceptsAll(sorted) == sorted

RECURSIVE UniqueIons(_)
UniqueIons(sorted) ==
    IF sorted = <<>> THEN <<>>
    ELSE LET r == UniqueIons(SubSeq(sorted, 1, Len(sorted) - 1))
             x == sorted[Len(sorted)]
         IN IF \E n \in 1..Len(r) : Abs(x.MSMS - r[n].MSMS) < MSMS_DEDUP_TOLERANCE
            THEN r ELSE Append(r, x)

\* a variant of GenerateIonPairsNIST without the near-duplicate suppression
GenerateIonPairsNIST_NoSuppression(working_group) ==
    IF Len(working_group) < 2 THEN <<>>
    ELSE PairsOf(SortByIntensity(working_group), NIST_PAIR_MIN_DIFF)

GenerateIonPairsNIST(working_group) ==
    IF Len(working_group) < 1 THEN <<>>
    ELSE LET unique_ions == UniqueIons(SortByIntensity(working_group))
         IN IF Len(unique_ions) < 2 THEN <<>>
            ELSE PairsOf(unique_ions, NIST_PAIR_MIN_DIFF)

\* a variant of ProcessCeRange that looks in the three tiers
ProcessCeRange_AnyTier(tiers, ion, nce) ==
    SelectSeq(tiers.low \o tiers.medium \o tiers.high,
              LAMBDA r : Abs(ion - r.MSMS) <= HIT_TOLERANCE)

\* process_ce_range: the rows of the ion's NCE tier within 1 of the ion
ProcessCeRange(tiers, ion, nce) ==
    SelectSeq(tiers[NCETier(nce)], LAMBDA r : Abs(ion - r.MSMS) <= HIT_TOLERANCE)

KeysOf(rows) == {rows[n].InChIKey : n \in 1..Len(rows)}

\* process_combination: [hit_num, hit_rate]
ProcessCombination(c, tiers, coverage_all) ==
    LET common_inchikeys == KeysOf(ProcessCeRange(tiers, c.MSMS1, c.NCE1))
                              \cup KeysOf(ProcessCeRange(tiers, c.MSMS2, c.NCE2))
        hit_num == Cardinality(common_inchikeys)
    IN [hit_num |-> hit_num,
        hit_rate |-> IF coverage_all # 0 THEN <<hit_num, coverage_all>> ELSE <<0, 1>>]

\* a variant of CalculateScoresNIST whose sensitivity is the share of the
\* other candidates in the total of the combined intensities
CalculateScoresNIST_ShareOfOthers(cands, tiers, coverage_all) ==
    LET isum(c) == c.intensity1 + c.intensity2
        total == SumSeq([n \in 1..Len(cands) |-> isum(cands[n])])
        sens(c) == IF total > 0 THEN <<total - isum(c), total>> ELSE <<0, 1>>
    IN [n \in 1..Len(cands) |->
          [pair |-> cands[n], hit_num |-> 0, hit_rate |-> <<0, 1>>,
           interference_level_sum |-> 0, intensity_sum |-> isum(cands[n]),
           fallback |-> FALSE, sensitivity_score |-> sens(cands[n]),
           specificity_score |-> <<1, 1>>,
           score |-> WeightedScore(sens(cands[n]), <<1, 1>>)]]

\* calculate_scores of the coverage method
CalculateScoresNIST(cands, tiers, coverage_all) ==
    LET hits(c) == ProcessCombination(c, tiers, coverage_all).hit_num
        rate(c) == ProcessCombination(c, tiers, coverage_all).hit_rate
        isum(c) == c.intensity1 + c.intensity2
        max_intensity_sum == Max({isum(cands[n]) : n \in 1..Len(cands)})
        max_hit_num == Max({hits(cands[n]) : n \in 1..Len(cands)})
        sens(c) == IF max_intensity_sum > 0 THEN <<isum(c), max_intensity_sum>> ELSE <<0, 1>>
        spec(c) == IF max_hit_num > 0 THEN <<max_hit_num - hits(c), max_hit_num>> ELSE <<1, 1>>
    IN [n \in 1..Len(cands) |->
          [pair |-> cands[n],
           hit_num |-> hits(cands[n]),
           hit_rate |-> rate(cands[n]),
           interference_level_sum |-> 0,
           intensity_sum |-> isum(cands[n]),
           fallback |-> FALSE,
           sensitivity_score |-> sens(cands[n]),
           specificity_score |-> spec(cands[n]),
           score |-> WeightedScore(sens(cands[n]), spec(cands[n]))]]

\* a variant of DedupNIST that keeps the last row of each pair
RECURSIVE DedupNIST_KeepLast(_)
DedupNIST_KeepLast(scored) ==
    IF scored = <<>> THEN <<>>
    ELSE LET r == DedupNIST_KeepLast(Tail(scored))
             x == Head(scored)
         IN IF \E n \in 1..Len(r) : MSMSCombined(r[n]) = MSMSCombined(x)
            THEN r ELSE <<x>> \o r

\* drop_duplicates(subset='MSMS_combined'): the first row of each pair
RECURSIVE DedupNIST(_)
DedupNIST(scored) ==
    IF scored = <<>> THEN <<>>
    ELSE LET r == DedupNIST(SubSeq(scored, 1, Len(scored) - 1))
             x == scored[Len(scored)]
         IN IF \E n \in 1..Len(r) : MSMSCombined(r[n]) = MSMSCombined(x)
            THEN r ELSE Append(r, x)

SelectBestPairsNIST(scored) ==
    LET survivors == DedupNIST(scored)
    IN [survivors |-> survivors,
        max_row |-> survivors[IdxMax(survivors, 1..Len(survivors))],
        top |-> FirstN(SortByScore(survivors), TOP_NIST)]

(***************************************************************************)
(* Rows and folders.                                                       *)
(***************************************************************************)
\* A row of a "nist" partition.  A row of a "qe" partition has the same
\* record: InChIKey is its 'Alignment ID', PrecursorMZ its 'Average Mz', RT
\* its 'Average Rt(min)' and spectrum its 'MS/MS spectrum', a sequence of
\* peaks [mz, intensity].
Row(id, key, ptype, pmz, rt, mode, msms, intensity, nce, ce) ==
    [id |-> id, InChIKey |-> key, Name |-> "x", Precursor_type |-> ptype,
     PrecursorMZ |-> pmz, RT |-> rt, Ion_mode |-> mode, MSMS |-> msms,
     intensity |-> intensity, NCE |-> nce, CE |-> ce, spectrum |-> <<>>]

Part(name, rows) == [name |-> name, readable |-> TRUE, shape |-> "nist", rows |-> rows]
QEPart(name, rows) == [name |-> name, readable |-> TRUE, shape |-> "qe", rows |-> rows]
Folder(parts) == [exists |-> TRUE, parts |-> parts]
NoFolder == [exists |-> FALSE, parts |-> <<>>]

(***************************************************************************)
(* query_interference_by_range.                                            *)
(***************************************************************************)
RECURSIVE ConcatAll(_)
ConcatAll(seqs) == IF seqs = <<>> THEN <<>> ELSE Head(seqs) \o ConcatAll(Tail(seqs))

RangeParams(precursormz, rt, mz_tolerance, rt_tolerance, use_avg_mz) ==
    [precursormz |-> precursormz, rt |-> rt, mz_tolerance |-> mz_tolerance,
     rt_tolerance |-> rt_tolerance, use_avg_mz |-> use_avg_mz]

\* The local mask: unbound until the first chunk that has the two columns
\* of the predicate; then the boolean Series of the last such chunk, its
\* index the row labels lo+1..lo+Len(bits) of that chunk in its file.
NoMask == [defined |-> FALSE, lo |-> 0, bits |-> <<>>]

InWindow(r, params) ==
    /\ Abs(r.PrecursorMZ - params.precursormz) <= params.mz_tolerance
    /\ Abs(r.RT - params.rt) <= params.rt_tolerance

\* lines 319-323 and 325-329: the mask of a chunk that has the columns
ChunkMask(chunk, lo, params) ==
    [defined |-> TRUE, lo |-> lo, bits |-> [n \in 1..Len(chunk) |-> InWindow(chunk[n], params)]]

\* line 333, chunk[mask]: an unbound mask raises NameError; a mask whose
\* index does not cover the labels of the chunk raises IndexingError; else
\* the mask is aligned on the labels and the rows it marks are selected
ApplyMask(chunk, lo, mask) ==
    IF ~mask.defined \/ lo < mask.lo \/ lo + Len(chunk) > mask.lo + Len(mask.bits)
    THEN [raised |-> TRUE, rows |-> <<>>]
    ELSE LET kept == {n \in 1..Len(chunk) : mask.bits[lo - mask.lo + n]}
             pick[n \in 0..Len(chunk)] ==
                 IF n = 0 THEN <<>>
                 ELSE IF n \in kept THEN Append(pick[n - 1], chunk[n]) ELSE pick[n - 1]
         IN [raised |-> FALSE, rows |-> pick[Len(chunk)]]

\* lines 317-335, the chunks c.. of one file: [frames, mask].  has_columns
\* says whether the file has the two columns of the selected predicate.  A
\* chunk without them is skipped by the continue of line 331 when
\* use_avg_mz is false; when it is true there is no continue, and line 333
\* applies the mask left by an earlier chunk.  An exception ends the file.
RECURSIVE ScanChunks(_, _, _, _, _, _)
ScanChunks(chunks, c, has_columns, params, mask, frames) ==
    IF c > Len(chunks) THEN [frames |-> frames, mask |-> mask]
    ELSE IF ~has_columns /\ ~params.use_avg_mz
         THEN ScanChunks(chunks, c + 1, has_columns, params, mask, frames)
    ELSE LET lo == (c - 1) * ChunkRows
             m == IF has_columns THEN ChunkMask(chunks[c], lo, params) ELSE mask
             filtered == ApplyMask(chunks[c], lo, m)
         IN IF filtered.raised THEN [frames |-> frames, mask |-> m]
            ELSE ScanChunks(chunks, c + 1, has_columns, params, m,
                            IF Len(filtered.rows) > 0 THEN Append(frames, filtered.rows)
                            ELSE frames)

\* lines 313-338, one file: a file that cannot be read raises before its
\* first chunk
ScanPart(part, params, mask) ==
    IF ~part.readable THEN [frames |-> <<>>, mask |-> mask]
    ELSE ScanChunks(Chunks(part.rows), 1,
                    part.shape = (IF params.use_avg_mz THEN "qe" ELSE "nist"),
                    params, mask, <<>>)

\* the rows all the files from..  append, the mask carried from file to file
RECURSIVE ScanParts(_, _, _, _)
ScanParts(parts, from, params, mask) ==
    IF from > Len(parts) THEN <<>>
    ELSE Let(ScanPart(parts[from], params, mask),
             LAMBDA sp : ConcatAll(sp.frames) \o ScanParts(parts, from + 1, params, sp.mask))

\* [raised, frame]: os.listdir raises for a folder that does not exist; a
\* partition that cannot be read contributes nothing.  With use_avg_mz the
\* columns of the predicate are those of a "qe" partition, else those of a
\* "nist" partition.
QueryInterferenceByRange(folder, precursormz, rt, mz_tolerance, rt_tolerance, use_avg_mz) ==
    IF ~folder.exists THEN [raised |-> TRUE, frame |-> EmptyFrame]
    ELSE LET rows == ScanParts(folder.parts, 1,
                        RangeParams(precursormz, rt, mz_tolerance, rt_tolerance, use_avg_mz),
                        NoMask)
         IN [raised |-> FALSE, frame |-> IF rows = <<>> THEN EmptyFrame ELSE Frame(rows)]

(***************************************************************************)
(* query_interference_by_range, file by file.  The locals of a running     *)
(* call: pc its position, batch_size, i the offset of the current batch,   *)
(* j the files of the batch read so far, batch_data and all_data the two   *)
(* lists of frames, batches the batches started, reads the files read with *)
(* the batch each was read in, result the frame returned.                  *)
(***************************************************************************)
NoScan ==
    [pc |-> "idle", params |-> RangeParams(0, 0, 0, 0, FALSE), batch_size |-> 0,
     i |-> 0, j |-> 0, batch_data |-> <<>>, all_data |-> <<>>, batches |-> 0,
     reads |-> <<>>, mask |-> NoMask, result |-> EmptyFrame]

\* the rows of one chunk that satisfy the mask computed from it, lines 318-333
MaskedRows(chunk, params) == SelectSeq(chunk, LAMBDA r : InWindow(r, params))

\* the frames one file appends to batch_data: the non-empty filtered chunks
FilteredChunks(part, params, mask) == ScanPart(part, params, mask).frames

\* lines 304-311: the files are listed and the first batch starts
ScanStart(folder, batch_size, params) ==
    [pc |-> IF Len(folder.parts) = 0 THEN "return" ELSE "batch",
     params |-> params, batch_size |-> batch_size, i |-> 0, j |-> 0,
     batch_data |-> <<>>, all_data |-> <<>>,
     batches |-> IF Len(folder.parts) = 0 THEN 0 ELSE 1,
     reads |-> <<>>, mask |-> NoMask, result |-> EmptyFrame]

\* the files of the current batch, csv_files[i:i+batch_size]
BatchFiles(s, folder) == Min({s.batch_size, Len(folder.parts) - s.i})

\* lines 313-338: one file of the batch
ScanFile(s, folder) ==
    LET part == folder.parts[s.i + s.j + 1]
    IN [s EXCEPT !.j = @ + 1,
                 !.batch_data = @ \o FilteredChunks(part, s.params, s.mask),
                 !.mask = ScanPart(part, s.params, s.mask).mask,
                 !.reads = Append(@, [part |-> part.name, batch |-> s.batches])]

\* a variant of ScanEndBatch that keeps the buffer of the batch for the next
ScanEndBatch_KeepsBuffer(s, folder) ==
    LET all == IF s.batch_data # <<>> THEN Append(s.all_data, ConcatAll(s.batch_data))
               ELSE s.all_data
    IN IF s.i + s.batch_size < Len(folder.parts)
       THEN [s EXCEPT !.all_data = all, !.i = @ + s.batch_size, !.j = 0, !.batches = @ + 1]
       ELSE [s EXCEPT !.all_data = all, !.pc = "return"]

\* lines 340-345 and 309-311: the batch is concatenated into all_data and
\* its buffer deleted; the next batch starts with an empty buffer, or the
\* loop ends
ScanEndBatch(s, folder) ==
    LET all == IF s.batch_data # <<>> THEN Append(s.all_data, ConcatAll(s.batch_data))
               ELSE s.all_data
    IN IF s.i + s.batch_size < Len(folder.parts)
       THEN [s EXCEPT !.all_data = all, !.batch_data = <<>>, !.i = @ + s.batch_size,
                      !.j = 0, !.batches = @ + 1]
       ELSE [s EXCEPT !.all_data = all, !.batch_data = <<>>, !.pc = "return"]

\* lines 347-350
ScanReturn(s) ==
    [s EXCEPT !.pc = "done",
              !.result = IF s.all_data = <<>> THEN EmptyFrame
                         ELSE Frame(ConcatAll(s.all_data))]

(***************************************************************************)
(* process_compound_nist and process_compound_qe.  Both return             *)
(* [outcome, result, file_indexes, cache, trace]: outcome is "result" (a    *)
(* dict is returned), "none" (None is returned) or "raised" (an exception  *)
(* leaves the call); trace keeps the stages the call went through.         *)
(***************************************************************************)
NoResult == [marker |-> "none"]

Trace(method, stage, precursormz, usable, ranked, candidates, scored, sel) ==
    [method |-> method, stage |-> stage, precursormz |-> precursormz,
     usable |-> usable, ranked |-> ranked, candidates |-> candidates,
     scored |-> scored, survivors |-> sel.survivors, top |-> sel.top,
     best |-> sel.best, outcome |-> "none", found |-> -1]
NoSelection == [survivors |-> <<>>, top |-> <<>>, best |-> <<>>]

Outcome(q, outcome, result, tr) ==
    [outcome |-> outcome, result |-> result, file_indexes |-> q.file_indexes,
     cache |-> q.cache, trace |-> [tr EXCEPT !.outcome = outcome]]

\* the trace of a call that got the answer of the range query: found is the
\* number of interference records the query returned
Found(tr, frame) == [tr EXCEPT !.found = Len(frame.rows)]

\* CE_QQQ = CE_SLOPE * CE + CE_INTERCEPT, in units of 0.0001
CEQQQ(ce) == CE_SLOPE * ce + CE_INTERCEPT

PairResult(inchikey, first_row, rt, coverage, max_row, top) ==
    [marker |-> "pair", chemical |-> first_row.Name, Precursor_mz |-> first_row.PrecursorMZ,
     InChIKey |-> inchikey, RT |-> rt,
     coverage_all |-> coverage.all, coverage_low |-> coverage.low,
     coverage_medium |-> coverage.medium, coverage_high |-> coverage.high,
     MSMS1 |-> max_row.pair.MSMS1, MSMS2 |-> max_row.pair.MSMS2,
     CE_QQQ1 |-> CEQQQ(max_row.pair.CE1), CE_QQQ2 |-> CEQQQ(max_row.pair.CE2),
     best_combinations |-> top,
     max_score |-> max_row.score,
     max_sensitivity_score |-> max_row.sensitivity_score,
     max_specificity_score |-> max_row.specificity_score]

\* the dict of lines 154-165
NoCombinationResult(inchikey, first_row, rt) ==
    [marker |-> "no combination", chemical |-> first_row.Name,
     Precursor_mz |-> first_row.PrecursorMZ, InChIKey |-> inchikey, RT |-> rt,
     coverage_all |-> 0, coverage_low |-> 0, coverage_medium |-> 0, coverage_high |-> 0,
     max_score |-> <<0, 1>>]

\* a variant of AwayFromPrecursor that lets the boundary distance pass
AwayFromPrecursor_Inclusive(row, precursormz) ==
    Abs(row.MSMS - precursormz) >= PRECURSOR_MZ_MIN_DIFF

\* abs(working_group['MSMS'] - precursormz) > PRECURSOR_MZ_MIN_DIFF
AwayFromPrecursor(row, precursormz) == Abs(row.MSMS - precursormz) > PRECURSOR_MZ_MIN_DIFF

UsableIons(rows, precursormz) ==
    SelectSeq(rows, LAMBDA r : AwayFromPrecursor(r, precursormz))

TierRows(rows, Tier(_), tier) == SelectSeq(rows, LAMBDA r : Tier(r) = tier)
NCETierOfRow(r) == NCETier(r.NCE)
CETierOfRow(r) == CETier(r.CE)

ProcessCompoundNIST(fi, file, library, interference, inchikey) ==
    Let(QueryByInchikey(fi, file, library, inchikey), LAMBDA q :
    Let(SelectSeq(q.frame.rows, LAMBDA r : r.Precursor_type = "[M+H]+"), LAMBDA adduct :
    IF q.raised
    THEN Outcome(q, "raised", NoResult,
             Trace("nist", "lookup raised", 0, <<>>, <<>>, <<>>, <<>>, NoSelection))
    ELSE IF Len(q.frame.rows) = 0
    THEN Outcome(q, "none", NoResult,
             Trace("nist", "not found", 0, <<>>, <<>>, <<>>, <<>>, NoSelection))
    ELSE IF Len(adduct) = 0
    THEN Outcome(q, "none", NoResult,
             Trace("nist", "no adduct", 0, <<>>, <<>>, <<>>, <<>>, NoSelection))
    ELSE
    Let(adduct[1], LAMBDA first_row :
    Let(UsableIons(adduct, first_row.PrecursorMZ), LAMBDA usable :
    IF Len(usable) < 2
    THEN Outcome(q, "none", NoResult,
             Trace("nist", "few ions", first_row.PrecursorMZ, usable,
                   <<>>, <<>>, <<>>, NoSelection))
    ELSE
    Let(FilterAndRankIonsNIST(usable), LAMBDA working_group :
    IF Len(working_group) < 1
    THEN Outcome(q, "none", NoResult,
             Trace("nist", "few ranked", first_row.PrecursorMZ, usable,
                   working_group, <<>>, <<>>, NoSelection))
    ELSE
    Let(GenerateIonPairsNIST(working_group), LAMBDA candidate_df :
    Let(Trace("nist", "pairs", first_row.PrecursorMZ, usable, working_group,
              candidate_df, <<>>, NoSelection), LAMBDA tr :
    IF Len(candidate_df) < 1
    THEN Outcome(q, "result", NoCombinationResult(inchikey, first_row, first_row.RT),
             [tr EXCEPT !.stage = "no pairs"])
    ELSE
    Let(QueryInterferenceByRange(interference, first_row.PrecursorMZ, first_row.RT,
            NIST_MZ_TOLERANCE, RT_TOLERANCE, FALSE), LAMBDA found :
    IF found.raised
    THEN Outcome(q, "raised", NoResult, [tr EXCEPT !.stage = "range raised"])
    ELSE IF ~found.frame.cols          \* different_inchikey_rows['NCE']: KeyError
    THEN Outcome(q, "raised", NoResult,
             Found([tr EXCEPT !.stage = "no columns"], found.frame))
    ELSE
    Let(SelectSeq(found.frame.rows, LAMBDA r : r.Ion_mode = first_row.Ion_mode),
        LAMBDA different :
    Let([low |-> TierRows(different, NCETierOfRow, "low"),
         medium |-> TierRows(different, NCETierOfRow, "medium"),
         high |-> TierRows(different, NCETierOfRow, "high")], LAMBDA tiers :
    Let([low |-> Cardinality(KeysOf(tiers.low)),
         medium |-> Cardinality(KeysOf(tiers.medium)),
         high |-> Cardinality(KeysOf(tiers.high)),
         all |-> Cardinality(KeysOf(different))], LAMBDA coverage :
    Let(CalculateScoresNIST(candidate_df, tiers, coverage.all), LAMBDA scored :
    Let(SelectBestPairsNIST(scored), LAMBDA picked :
    Outcome(q, "result",
        PairResult(inchikey, first_row, first_row.RT, coverage, picked.max_row, picked.top),
        Found([tr EXCEPT !.stage = "selected", !.scored = scored,
                         !.survivors = picked.survivors, !.top = picked.top,
                         !.best = <<picked.max_row>>], found.frame))
    )))))))))))))

\* prepare_interference_data_qe: [raised, cols, frame, low, medium, high]
PrepareInterferenceDataQE(interference, precursormz, rt) ==
    Let(QueryInterferenceByRange(interference, precursormz, rt,
            MZ_TOLERANCE, RT_TOLERANCE, TRUE), LAMBDA found :
    IF Len(found.frame.rows) > 0 /\ found.frame.cols
    THEN [raised |-> found.raised, cols |-> TRUE, frame |-> found.frame,
          low |-> TierRows(found.frame.rows, CETierOfRow, "low"),
          medium |-> TierRows(found.frame.rows, CETierOfRow, "medium"),
          high |-> TierRows(found.frame.rows, CETierOfRow, "high")]
    ELSE [raised |-> found.raised, cols |-> FALSE, frame |-> found.frame,
          low |-> <<>>, medium |-> <<>>, high |-> <<>>])

ProcessCompoundQE(fi, file, library, interference, inchikey) ==
    Let(QueryByInchikey(fi, file, library, inchikey), LAMBDA q :
    Let(SelectSeq(q.frame.rows, LAMBDA r : r.Precursor_type = "[M+H]+"), LAMBDA adduct :
    IF q.raised
    THEN Outcome(q, "raised", NoResult,
             Trace("qe", "lookup raised", 0, <<>>, <<>>, <<>>, <<>>, NoSelection))
    ELSE IF Len(q.frame.rows) = 0
    THEN Outcome(q, "none", NoResult,
             Trace("qe", "not found", 0, <<>>, <<>>, <<>>, <<>>, NoSelection))
    ELSE IF Len(adduct) = 0
    THEN Outcome(q, "none", NoResult,
             Trace("qe", "no adduct", 0, <<>>, <<>>, <<>>, <<>>, NoSelection))
    ELSE
    Let(adduct[1], LAMBDA first_row :
    Let(first_row.RT + RT_OFFSET, LAMBDA rt :
    Let(UsableIons(adduct, first_row.PrecursorMZ), LAMBDA usable :
    IF Len(usable) < 2
    THEN Outcome(q, "none", NoResult,
             Trace("qe", "few ions", first_row.PrecursorMZ, usable,
                   <<>>, <<>>, <<>>, NoSelection))
    ELSE
    Let(FilterAndRankIonsQE(usable), LAMBDA filtered_ions :
    IF Len(filtered_ions) < 2
    THEN Outcome(q, "none", NoResult,
             Trace("qe", "few ranked", first_row.PrecursorMZ, usable,
                   filtered_ions, <<>>, <<>>, NoSelection))
    ELSE
    Let(GenerateIonPairsQE(filtered_ions), LAMBDA candidate_df :
    Let(Trace("qe", "pairs", first_row.PrecursorMZ, usable, filtered_ions,
              candidate_df, <<>>, NoSelection), LAMBDA tr :
    IF Len(candidate_df) = 0
    THEN Outcome(q, "none", NoResult, [tr EXCEPT !.stage = "no pairs"])
    ELSE
    Let(PrepareInterferenceDataQE(interference, first_row.PrecursorMZ, rt), LAMBDA data :
    IF data.raised
    THEN Outcome(q, "raised", NoResult, [tr EXCEPT !.stage = "range raised"])
    ELSE IF ~data.cols     \* interference_data['low']['Alignment ID']: KeyError
    THEN Outcome(q, "raised", NoResult,
             Found([tr EXCEPT !.stage = "no columns"], data.frame))
    ELSE
    Let([low |-> Cardinality(KeysOf(data.low)),
         medium |-> Cardinality(KeysOf(data.medium)),
         high |-> Cardinality(KeysOf(data.high)),
         all |-> Cardinality(KeysOf(data.low)) + Cardinality(KeysOf(data.medium))
                    + Cardinality(KeysOf(data.high))], LAMBDA coverage :
    Let(CalculateScoresQE(candidate_df, data), LAMBDA scored :
    Let(SelectBestPairsQE(scored), LAMBDA picked :
    Outcome(q, "result",
        PairResult(inchikey, first_row, rt, coverage, picked.max_row, picked.top),
        Found([tr EXCEPT !.stage = "selected", !.scored = scored,
                         !.survivors = picked.survivors, !.top = picked.top,
                         !.best = <<picked.max_row>>], data.frame))
    ))))))))))))

ProcessCompound(use_nist, fi, file, library, interference, inchikey) ==
    IF use_nist THEN ProcessCompoundNIST(fi, file, library, interference, inchikey)
    ELSE ProcessCompoundQE(fi, file, library, interference, inchikey)

(***************************************************************************)
(* The inputs of the loader specification: fragment libraries of two       *)
(* partitions whose stored keys are case and whitespace variants of one    *)
(* key, another key, a blank cell, the marker 'none' and a missing cell.   *)
(***************************************************************************)
K_ab == <<"a", "b">>
K_AB == <<"A", "B">>
K_a_b == <<"a", " ", "b">>
K_sp_ab == <<" ", "a", "b">>
K_b == <<"b">>
K_blank == <<" ">>

StoredKeys == {K_ab, K_AB, K_a_b, K_sp_ab, K_b, K_blank, NoneStr, NaNCell}
QueryKeys == StoredKeys \ {NaNCell}

KeySeqs == UNION {[1..m -> StoredKeys] : m \in 0..MaxRows}

KeyRows(p, keys) ==
    [n \in 1..Len(keys) |-> Row(<<p, n>>, keys[n], "[M+H]+", 0, 0, "P", 0, 0, 0, 0)]

KeyFolder(keys1, keys2) ==
    Folder(<<Part("p1.csv", KeyRows(1, keys1)), Part("p2.csv", KeyRows(2, keys2))>>)

LoaderFolders ==
    {KeyFolder(ks[1], ks[2]) :
        ks \in {x \in KeySeqs \X KeySeqs : Len(x[1]) + Len(x[2]) <= MaxRows}}

(***************************************************************************)
(* The run, idle: the state of the run variables before run_optimization.  *)
(***************************************************************************)
DefaultConfig ==
    [USE_NIST_METHOD |-> TRUE, SINGLE_COMPOUND_MODE |-> FALSE,
     TARGET_INCHIKEY |-> <<>>, SAVE_INTERVAL |-> 1]
NoTrace == Trace("none", "none", 0, <<>>, <<>>, <<>>, <<>>, NoSelection)

RunIdle ==
    /\ config = DefaultConfig
    /\ compounds_to_process = <<>>
    /\ i = 0
    /\ results = <<>>
    /\ processed_count = 0
    /\ error_count = 0
    /\ checkpoints = <<>>
    /\ output = <<>>
    /\ pc = "idle"
    /\ trace = NoTrace
    /\ scan = NoScan
    /\ msms_cache = {}

(***************************************************************************)
(* SpecLoader: key lookups against a drawn fragment library, the index     *)
(* built from the library at the first lookup and persisted.               *)
(***************************************************************************)
InitLoader ==
    /\ pesudo \in LoaderFolders
    /\ intf = NoFolder
    /\ cache = NoFile
    /\ file_indexes = NoIndex
    /\ lookups = <<>>
    /\ RunIdle

\* one call of query_by_inchikey(PESUDO_TQDB_PATH, inchikey)
Query(inchikey) ==
    LET q == QueryByInchikey(file_indexes, cache, pesudo, inchikey)
    IN /\ file_indexes' = q.file_indexes
       /\ cache' = q.cache
       /\ lookups' = <<[key |-> inchikey, raised |-> q.raised, frame |-> q.frame]>>
                       \o SubSeq(lookups, 1, Min({Len(lookups), 1}))
       /\ UNCHANGED <<scan, msms_cache, pesudo, intf, runVars, trace>>

NextLoader == \E k \in QueryKeys : Query(k)

SpecLoader == InitLoader /\ [][NextLoader]_vars

(***************************************************************************)
(* Claims on the key lookup.                                               *)
(***************************************************************************)
AllRows(folder) ==
    UNION {{folder.parts[p].rows[n] : n \in 1..Len(folder.parts[p].rows)} :
             p \in 1..Len(folder.parts)}
FrameRows(frame) == {frame.rows[n] : n \in 1..Len(frame.rows)}

\* the rows whose stored key literally equals k are in the lookup's result
LiteralRowsReturned(l) ==
    /\ ~l.raised
    /\ \A row \in AllRows(pesudo) : row.InChIKey = l.key => row \in FrameRows(l.frame)

\* C1, as stated: every lookup of a key k returns a superset of the rows
\* whose stored key literally equals k, whatever case or whitespace variants
\* the query key and the stored keys are.
C1_LiteralSuperset ==
    \A n \in 1..Len(lookups) : LiteralRowsReturned(lookups[n])

\* C1, amended: the same for every key k that is indexable, i.e. whose
\* trimmed form is not empty, not 'nan' and not 'none' in any letter case.
C1_LiteralSupersetOfIndexable ==
    \A n \in 1..Len(lookups) :
        Indexable(StrStrip(lookups[n].key)) => LiteralRowsReturned(lookups[n])

\* C1 witness: a key with surrounding whitespace was looked up in a library
\* that stores it literally beside another variant, and its row came back.
C1_Witness ==
    /\ Len(lookups) > 0
    /\ lookups[1].key = K_sp_ab
    /\ \E r1, r2 \in AllRows(pesudo) :
          /\ r1.InChIKey = K_sp_ab
          /\ r2.InChIKey = K_AB
          /\ r1 \in FrameRows(lookups[1].frame)

\* two keys that differ only in whitespace or letter case
NormalKey(k) == StrLower(RegexClean(k))

\* C2: two lookups whose keys differ only in surrounding whitespace,
\* embedded whitespace or letter case return the same set of rows.
C2_VariantsSameRows ==
    \A m, n \in 1..Len(lookups) :
        NormalKey(lookups[m].key) = NormalKey(lookups[n].key)
            => FrameRows(lookups[m].frame) = FrameRows(lookups[n].frame)

\* the query key is no key of the index the call used, and no key of that
\* index equals it case-insensitively
KeyUnknown(index, inchikey0) ==
    LET k == StrStrip(inchikey0)
    IN \A n \in 1..Len(index) :
          index[n].key # k /\ StrLower(index[n].key) # StrLower(k)

\* the call returned an empty result, raised nothing and read no partition
EmptyWithoutReading(q) == ~q.raised /\ q.frame = EmptyFrame /\ q.reads = <<>>

\* C13, as stated: a lookup of a key that is no index key, under any letter
\* case, returns an empty result without raising and without reading a
\* partition.
C13_UnknownKeyReadsNothing ==
    [][\A k \in QueryKeys :
          (Query(k) /\ KeyUnknown(file_indexes'.index, k))
              => EmptyWithoutReading(QueryByInchikey(file_indexes, cache, pesudo, k))]_vars

\* C13, amended: the same for a lookup that finds the index in memory or in
\* an accepted cache file; the lookup that builds the index reads every
\* partition.
C13_UnknownKeyReadsNothingOnceBuilt ==
    [][\A k \in QueryKeys :
          (/\ Query(k)
           /\ file_indexes.built \/ CacheAccepted(cache)
           /\ KeyUnknown(file_indexes'.index, k))
              => EmptyWithoutReading(QueryByInchikey(file_indexes, cache, pesudo, k))]_vars

\* C13 witness: after an earlier lookup built the index of a library that
\* stores keys, a key unknown to the index was looked up: the result is
\* empty and the call read nothing.
C13_Witness ==
    /\ Len(lookups) = 2
    /\ file_indexes.built
    /\ Len(file_indexes.index) > 0
    /\ KeyUnknown(file_indexes.index, lookups[1].key)
    /\ ~lookups[1].raised
    /\ lookups[1].frame = EmptyFrame
    /\ EmptyWithoutReading(QueryByInchikey(file_indexes, cache, pesudo, lookups[1].key))

(***************************************************************************)
(* SpecCache: the same lookups, the cache file drawn instead of the        *)
(* library: no file, a file that cannot be unpickled, a pickle that is no  *)
(* dict, and dicts of up to MaxCacheEntries entries whose values are lists *)
(* of paths, lists of (path, offset) tuples, mixed or empty lists, or no   *)
(* list.                                                                   *)
(***************************************************************************)
MaxCacheEntries == 2

CacheValues ==
    {ListVal(<<StrLoc("p1.csv")>>),
     ListVal(<<TupleLoc("p1.csv", 0)>>),
     ListVal(<<StrLoc("p1.csv"), TupleLoc("p2.csv", 0)>>),
     ListVal(<<>>),
     OtherVal}

CacheEntries == [key : {K_ab, K_b}, val : CacheValues]

CacheDicts ==
    {e \in UNION {[1..m -> CacheEntries] : m \in 0..MaxCacheEntries} :
        \A a, b \in 1..Len(e) : a # b => e[a].key # e[b].key}

CacheFiles == {NoFile, OtherFile, CorruptFile} \cup {DictFile(e) : e \in CacheDicts}

InitCache ==
    /\ pesudo = KeyFolder(<<K_ab>>, <<K_b>>)
    /\ intf = NoFolder
    /\ cache \in CacheFiles
    /\ file_indexes = NoIndex
    /\ lookups = <<>>
    /\ RunIdle

SpecCache == InitCache /\ [][NextLoader]_vars

IsPathList(val) ==
    /\ val.t = "list"
    /\ \A n \in 1..Len(val.items) : val.items[n].t = "str"

\* C7: whatever the cache file holds, the index a lookup works on maps every
\* key to a list of path strings.
C7_IndexOfPathLists ==
    file_indexes.built =>
        \A n \in 1..Len(file_indexes.index) : IsPathList(file_indexes.index[n].val)

(***************************************************************************)
(* SpecIons: one compound is processed by either method.  Its library rows *)
(* are drawn from ions of precursor 300.0 that meet the thresholds of the  *)
(* code: equal masses in two energy tiers, masses 0.0005, 1.9999 and 2.0   *)
(* apart, and masses 14.0126 and 14.0127 from the precursor.  The          *)
(* interference folder holds no record in the window, records of other     *)
(* compounds, or records of the other ion mode.  A second family of        *)
(* initial states gives select_best_pairs drawn lists of scored            *)
(* candidates.                                                             *)
(***************************************************************************)
MaxIons == 3         \* rows of the drawn compound
MaxCandidates == 3   \* length of a drawn candidate list

\* the drawn compound: precursor 300.0, retention time 5.0 minutes
PrecursorMass == 300 * 10000
CompoundRT == 5 * 10

Ion(msms, intensity, nce, ce) ==
    Row(<<0, 0>>, K_ab, "[M+H]+", PrecursorMass, CompoundRT, "P", msms, intensity, nce, ce)

IonUniverse ==
    {Ion(1000000, 500, 30, 10),
     Ion(1500000, 300, 30, 10),
     Ion(1000000, 400, 90, 30),
     Ion(1000005, 200, 30, 10),
     Ion(1019999, 600, 150, 50),
     Ion(1020000, 500, 30, 10),
     Ion(2859874, 900, 90, 30),
     Ion(2859873, 100, 150, 50)}

IonLists == UNION {[1..m -> IonUniverse] : m \in 0..MaxIons}

\* the rows of a compound, numbered
Numbered(p, rows) == [n \in 1..Len(rows) |-> [rows[n] EXCEPT !.id = <<p, n>>]]

IonFolder(ions) == Folder(<<Part("p1.csv", Numbered(1, ions))>>)

\* interference records of the coverage method, inside the window of the
\* compound (precursor within 0.7, RT within 2.0 minutes) unless said
Interferer(id, key, pmz, mode, msms, nce) ==
    Row(id, key, "[M+H]+", pmz, CompoundRT + 10, mode, msms, 50, nce, 10)

InterferenceNIST ==
    {Folder(<<Part("i1.csv", <<Interferer(<<1, 1>>, K_b, PrecursorMass + 100000, "P", 1000000, 30)>>)>>),
     Folder(<<Part("i1.csv", <<Interferer(<<1, 1>>, K_b, PrecursorMass + 5000, "P", 1005000, 30),
                               Interferer(<<1, 2>>, K_AB, PrecursorMass - 7000, "P", 1500000, 30),
                               Interferer(<<1, 3>>, K_b, PrecursorMass, "P", 1495000, 90)>>)>>),
     Folder(<<Part("i1.csv", <<Interferer(<<1, 1>>, K_b, PrecursorMass, "N", 1000000, 30)>>)>>),
     Folder(<<Part("i1.csv", <<Interferer(<<1, 1>>, K_ab, PrecursorMass, "P", 1000000, 30),
                               Interferer(<<1, 2>>, K_b, PrecursorMass, "P", 1500000, 30)>>)>>)}

\* interference records of the overlap method: a peak list per record
Peak(mz, intensity) == [mz |-> mz, intensity |-> intensity]
Spectrum(id, key, pmz, ce, peaks) ==
    [Row(id, key, "", pmz, CompoundRT - 20, "", 0, 0, 0, ce) EXCEPT !.spectrum = peaks]

InterferenceQE ==
    {Folder(<<QEPart("q1.csv", <<Spectrum(<<1, 1>>, K_b, PrecursorMass + 7001, 10,
                                          <<Peak(1000000, 40)>>)>>)>>),
     Folder(<<QEPart("q1.csv", <<Spectrum(<<1, 1>>, K_b, PrecursorMass + 7000, 10,
                                          <<Peak(1007000, 40), Peak(1500000, 5), Peak(1007001, 9)>>),
                                 Spectrum(<<1, 2>>, K_AB, PrecursorMass, 30,
                                          <<Peak(1000000, 7)>>)>>)>>),
     Folder(<<QEPart("q1.csv", <<Spectrum(<<1, 1>>, K_b, PrecursorMass, 10,
                                          <<Peak(2000000, 40)>>)>>)>>)}

\* drawn lists of scored candidates: one mass pair in both orders and with
\* several scores, and another pair
ScoredPair(msms1, msms2, num) ==
    [pair |-> [MSMS1 |-> msms1, intensity1 |-> 100, NCE1 |-> 30, CE1 |-> 10,
               MSMS2 |-> msms2, intensity2 |-> 100, NCE2 |-> 30, CE2 |-> 10],
     hit_num |-> 0, hit_rate |-> <<0, 1>>, interference_level_sum |-> 0, intensity_sum |-> 200,
     fallback |-> FALSE, sensitivity_score |-> <<1, 1>>,
     specificity_score |-> <<2 * num - 4, 4>>, score |-> <<num, 4>>]

ScoredUniverse ==
    {ScoredPair(1000000, 1500000, 2),
     ScoredPair(1500000, 1000000, 3),
     ScoredPair(1000000, 1500000, 3),
     ScoredPair(1000000, 2000000, 2),
     ScoredPair(2000000, 1000000, 1)}

\* lists of one candidate more than a top-N list holds, of pairwise
\* different mass pairs, their scores rising, falling or repeating
LongList(m, pattern) ==
    [n \in 1..m |->
        ScoredPair(1000000, 1000000 + n * 100000,
                   IF pattern = "rising" THEN n
                   ELSE IF pattern = "falling" THEN m - n
                   ELSE n % 3)]
LongLists ==
    {LongList(m, pattern) : m \in {TOP_QE + 1, TOP_NIST + 1},
                            pattern \in {"rising", "falling", "repeating"}}

ScoredLists == UNION {[1..m -> ScoredUniverse] : m \in 1..MaxCandidates} \cup LongLists

IdleBut(cfg, tr) ==
    /\ config = cfg
    /\ compounds_to_process = <<>>
    /\ i = 0
    /\ results = <<>>
    /\ processed_count = 0
    /\ error_count = 0
    /\ checkpoints = <<>>
    /\ output = <<>>
    /\ pc = "idle"
    /\ trace = tr
    /\ scan = NoScan
    /\ msms_cache = {}

InitCompound ==
    /\ \E ions \in IonLists : pesudo = IonFolder(ions)
    /\ \E nist \in BOOLEAN :
          /\ intf \in (IF nist THEN InterferenceNIST ELSE InterferenceQE)
          /\ IdleBut([DefaultConfig EXCEPT !.USE_NIST_METHOD = nist], NoTrace)
    /\ cache = NoFile
    /\ file_indexes = NoIndex
    /\ lookups = <<>>

InitCandidates ==
    /\ pesudo = NoFolder
    /\ intf = NoFolder
    /\ cache = NoFile
    /\ file_indexes = NoIndex
    /\ lookups = <<>>
    /\ \E nist \in BOOLEAN, scored \in ScoredLists :
          IdleBut([DefaultConfig EXCEPT !.USE_NIST_METHOD = nist],
                  [NoTrace EXCEPT !.method = IF nist THEN "nist" ELSE "qe",
                                  !.stage = "drawn", !.scored = scored])

InitIons == InitCompound \/ InitCandidates

\* process_compound_nist(K_ab) or process_compound_qe(K_ab)
ProcessOne ==
    /\ trace.stage = "none"
    /\ \E r \in {ProcessCompound(config.USE_NIST_METHOD, file_indexes, cache,
                                  pesudo, intf, K_ab)} :
          /\ trace' = r.trace
          /\ file_indexes' = r.file_indexes
          /\ cache' = r.cache
    /\ UNCHANGED <<scan, msms_cache, pesudo, intf, lookups, runVars>>

\* select_best_pairs on a drawn list
SelectDrawn ==
    /\ trace.stage = "drawn"
    /\ LET picked == IF config.USE_NIST_METHOD THEN SelectBestPairsNIST(trace.scored)
                     ELSE SelectBestPairsQE(trace.scored)
       IN trace' = [trace EXCEPT !.stage = "selected drawn",
                                 !.survivors = picked.survivors,
                                 !.top = picked.top,
                                 !.best = <<picked.max_row>>]
    /\ UNCHANGED <<scan, msms_cache, pesudo, intf, cache, file_indexes, lookups, runVars>>

NextIons == ProcessOne \/ SelectDrawn

SpecIons == InitIons /\ [][NextIons]_vars

(***************************************************************************)
(* Claims on the candidates of a compound.                                 *)
(***************************************************************************)
Selected == trace.stage \in {"selected", "selected drawn"}

PairApart(c) == Abs(c.MSMS1 - c.MSMS2) >= ION_PAIR_MIN_DIFF
PairAwayFromPrecursor(c) ==
    /\ Abs(c.MSMS1 - trace.precursormz) > PRECURSOR_MZ_MIN_DIFF
    /\ Abs(c.MSMS2 - trace.precursormz) > PRECURSOR_MZ_MIN_DIFF

\* C8: every candidate pair generated for a compound, and every pair scored,
\* has its two masses at least 2.0 apart and each more than
\* PRECURSOR_MZ_MIN_DIFF from the precursor mass.
C8_PairsSeparated ==
    trace.stage \notin {"none", "drawn", "selected drawn"} =>
        /\ \A n \in 1..Len(trace.candidates) :
              PairApart(trace.candidates[n]) /\ PairAwayFromPrecursor(trace.candidates[n])
        /\ \A n \in 1..Len(trace.scored) :
              PairApart(trace.scored[n].pair) /\ PairAwayFromPrecursor(trace.scored[n].pair)

\* C8 witness: a pair exactly 2.0 apart was scored for a compound that also
\* had an ion at exactly 14.0126 from the precursor.
C8_Witness ==
    /\ trace.stage = "selected"
    /\ Len(trace.scored) >= 1
    /\ \E n \in 1..Len(trace.scored) :
          Abs(trace.scored[n].pair.MSMS1 - trace.scored[n].pair.MSMS2) = ION_PAIR_MIN_DIFF
    /\ \E p \in 1..Len(pesudo.parts) : \E n \in 1..Len(pesudo.parts[p].rows) :
          Abs(pesudo.parts[p].rows[n].MSMS - trace.precursormz) = PRECURSOR_MZ_MIN_DIFF

NoSharedPair(rows) ==
    \A m, n \in 1..Len(rows) : m # n => MSMSCombined(rows[m]) # MSMSCombined(rows[n])

\* C9: after select_best_pairs no two surviving candidates have the same
\* unordered mass pair, and the top-N rows are surviving candidates of
\* pairwise different mass pairs.
C9_OnePerMassPair ==
    Selected =>
        /\ NoSharedPair(trace.survivors)
        /\ NoSharedPair(trace.top)
        /\ \A n \in 1..Len(trace.top) :
              \E m \in 1..Len(trace.survivors) : trace.top[n] = trace.survivors[m]

\* C9 witness: the overlap method scored the same mass pair twice for a
\* compound (the same mass in two CE tiers) and kept one of the two.
C9_Witness ==
    /\ trace.stage = "selected"
    /\ trace.method = "qe"
    /\ ~NoSharedPair(trace.scored)
    /\ Len(trace.survivors) >= 1
    /\ Len(trace.survivors) < Len(trace.scored)

\* the scenario of C10: the compound has exactly two fragment ions, 100.0
\* (intensity 500) and 150.0 (intensity 300), its precursor is 300.0, and
\* the range query found no interference record
ScenarioIons == {<<100 * 10000, 500>>, <<150 * 10000, 300>>}
ScenarioPair == <<100 * 10000, 150 * 10000>>

Scenario ==
    /\ trace.stage \notin {"none", "drawn", "selected drawn"}
    /\ Len(pesudo.parts) = 1
    /\ Len(pesudo.parts[1].rows) = 2
    /\ {<<pesudo.parts[1].rows[n].MSMS, pesudo.parts[1].rows[n].intensity>> : n \in 1..2}
          = ScenarioIons
    /\ trace.precursormz = 300 * 10000
    /\ trace.found = 0

\* C10: in the scenario a result with the single pair (100.0, 150.0) is
\* produced, not an error; its sensitivity score is 1.0, and its specificity
\* score is 1 in the coverage method while the overlap method takes its
\* zero-interference fallback branch.
C10_ScenarioYieldsPair ==
    Scenario =>
        /\ trace.outcome = "result"
        /\ Len(trace.best) = 1
        /\ MSMSCombined(trace.best[1]) = ScenarioPair
        /\ RatEq(trace.best[1].sensitivity_score, <<1, 1>>)
        /\ IF trace.method = "nist"
           THEN RatEq(trace.best[1].specificity_score, <<1, 1>>)
           ELSE trace.best[1].fallback

(***************************************************************************)
(* SpecRun: run_optimization, in batch mode over a drawn list of target    *)
(* compounds and in single-compound mode, against a fixed fragment library *)
(* whose compounds end in each way a compound can end, with each of the    *)
(* two collections present, absent or without partitions.                  *)
(***************************************************************************)
MaxTargets == 3        \* length of the target list of a batch run
MaxSaveInterval == 2   \* SAVE_INTERVAL of the drawn configuration

K_c == <<"c">>
K_d == <<"d">>
K_e == <<"e">>
K_f == <<"f">>

\* K_ab: two ions, interference records in its window (a pair is selected);
\* K_b: two ions, no interference record in its window; K_c: no [M+H]+ row;
\* K_d: one usable ion; K_e: two ions 1.0 apart; K_f: not in the library
RunLibrary ==
    Folder(<<Part("p1.csv", Numbered(1,
                <<Row(<<0, 0>>, K_ab, "[M+H]+", 300 * 10000, 50, "P", 100 * 10000, 500, 30, 10),
                  Row(<<0, 0>>, K_ab, "[M+H]+", 300 * 10000, 50, "P", 150 * 10000, 300, 30, 10),
                  Row(<<0, 0>>, K_b, "[M+H]+", 400 * 10000, 50, "P", 100 * 10000, 500, 30, 10),
                  Row(<<0, 0>>, K_b, "[M+H]+", 400 * 10000, 50, "P", 150 * 10000, 300, 30, 10)>>)),
             Part("p2.csv", Numbered(2,
                <<Row(<<0, 0>>, K_c, "[M-H]-", 300 * 10000, 50, "N", 100 * 10000, 500, 30, 10),
                  Row(<<0, 0>>, K_d, "[M+H]+", 300 * 10000, 50, "P", 100 * 10000, 500, 30, 10),
                  Row(<<0, 0>>, K_e, "[M+H]+", 300 * 10000, 50, "P", 100 * 10000, 500, 30, 10),
                  Row(<<0, 0>>, K_e, "[M+H]+", 300 * 10000, 50, "P", 101 * 10000, 300, 30, 10)>>))>>)

RunInterference(use_nist) ==
    IF use_nist
    THEN Folder(<<Part("i1.csv",
                    <<Interferer(<<1, 1>>, K_f, 300 * 10000 + 5000, "P", 100 * 10000, 30)>>)>>)
    ELSE Folder(<<QEPart("q1.csv",
                    <<Spectrum(<<1, 1>>, K_f, 300 * 10000, 10, <<Peak(100 * 10000, 40)>>)>>)>>)

NoPartitions == Folder(<<>>)

\* the two collections of a run: both present, or one of them absent or
\* without partitions
Collections(use_nist) ==
    {<<RunLibrary, RunInterference(use_nist)>>,
     <<NoFolder, RunInterference(use_nist)>>,
     <<NoPartitions, RunInterference(use_nist)>>,
     <<RunLibrary, NoFolder>>,
     <<RunLibrary, NoPartitions>>}

TargetKeys == {K_ab, K_b, K_c, K_d, K_e, K_f}

\* demo_df['InChIKey'].unique().tolist(): pairwise different keys
TargetLists ==
    {t \in UNION {[1..m -> TargetKeys] : m \in 0..MaxTargets} :
        \A m, n \in 1..Len(t) : m # n => t[m] # t[n]}

\* TARGET_INCHIKEY of single-compound mode
SingleTargets == {<<>>, K_blank, K_sp_ab, K_b, K_f}

RunConfigs ==
    {[USE_NIST_METHOD |-> nist, SINGLE_COMPOUND_MODE |-> FALSE,
      TARGET_INCHIKEY |-> <<>>, SAVE_INTERVAL |-> s] :
        nist \in BOOLEAN, s \in 1..MaxSaveInterval}
    \cup
    {[USE_NIST_METHOD |-> nist, SINGLE_COMPOUND_MODE |-> TRUE,
      TARGET_INCHIKEY |-> t, SAVE_INTERVAL |-> 1] :
        nist \in BOOLEAN, t \in SingleTargets}

InitRun ==
    /\ config \in RunConfigs
    /\ \E c \in Collections(config.USE_NIST_METHOD) : pesudo = c[1] /\ intf = c[2]
    /\ cache = NoFile
    /\ file_indexes = NoIndex
    /\ lookups = <<>>
    /\ compounds_to_process = <<>>
    /\ i = 0
    /\ results = <<>>
    /\ processed_count = 0
    /\ error_count = 0
    /\ checkpoints = <<>>
    /\ output = <<>>
    /\ pc = "start"
    /\ trace = NoTrace
    /\ scan = NoScan
    /\ msms_cache = {}

\* the result written for a single compound that is not in the library
NotFoundResult(inchikey) ==
    [marker |-> "not found", chemical |-> "not found", Precursor_mz |-> 0,
     InChIKey |-> inchikey, RT |-> 0,
     coverage_all |-> 0, coverage_low |-> 0, coverage_medium |-> 0, coverage_high |-> 0,
     max_score |-> <<0, 1>>]

\* check_inchikey_exists with demo_df = None: [raised, exists, file_indexes, cache]
CheckInchikeyExists(fi, file, library, target_inchikey) ==
    Let(QueryByInchikey(fi, file, library, target_inchikey), LAMBDA q :
        [raised |-> q.raised, exists |-> Len(q.frame.rows) > 0,
         file_indexes |-> q.file_indexes, cache |-> q.cache])

\* run_optimization up to the loop, batch mode: the targets are the unique
\* keys of the target table
StartBatch ==
    /\ pc = "start"
    /\ ~config.SINGLE_COMPOUND_MODE
    /\ \E unique_inchikeys \in TargetLists : compounds_to_process' = unique_inchikeys
    /\ pc' = "loop"
    /\ UNCHANGED <<scan, msms_cache, loaderVars, intf, config, i, results, processed_count, error_count,
                   checkpoints, output, trace>>

\* run_optimization up to the loop, single-compound mode
StartSingle ==
    /\ pc = "start"
    /\ config.SINGLE_COMPOUND_MODE
    /\ \E target_inchikey \in {StrStrip(config.TARGET_INCHIKEY)} :
       \E c \in {CheckInchikeyExists(file_indexes, cache, pesudo, target_inchikey)} :
          IF target_inchikey = <<>>
          THEN /\ pc' = "returned"
               /\ UNCHANGED <<file_indexes, cache, compounds_to_process, results, output>>
          ELSE /\ file_indexes' = c.file_indexes
               /\ cache' = c.cache
               /\ IF c.raised
                  THEN /\ pc' = "aborted"
                       /\ UNCHANGED <<compounds_to_process, results, output>>
                  ELSE IF ~c.exists
                  THEN /\ results' = <<NotFoundResult(target_inchikey)>>
                       /\ output' = <<results'>>
                       /\ pc' = "returned"
                       /\ UNCHANGED compounds_to_process
                  ELSE /\ compounds_to_process' = <<target_inchikey>>
                       /\ pc' = "loop"
                       /\ UNCHANGED <<results, output>>
    /\ UNCHANGED <<scan, msms_cache, pesudo, intf, lookups, config, i, processed_count, error_count,
                   checkpoints, trace>>

\* _save_intermediate_results(results, processed_count): the checkpoints
\* written so far, each [count, rows]
SaveIntermediateResults(saved, rows, count) ==
    IF rows # <<>> THEN Append(saved, [count |-> count, rows |-> rows]) ELSE saved

\* one pass of the loop body, the except clause included.  save_fails: the
\* write of the checkpoint (line 478) raises, after the result was counted;
\* the except clause of line 486 then counts the compound as failed.
IterateStep(save_fails) ==
    /\ pc = "loop"
    /\ i < Len(compounds_to_process)
    /\ \E r \in {ProcessCompound(config.USE_NIST_METHOD, file_indexes, cache,
                                  pesudo, intf, compounds_to_process[i + 1])} :
          /\ file_indexes' = r.file_indexes
          /\ cache' = r.cache
          /\ trace' = r.trace
          /\ IF r.outcome = "raised"
             THEN /\ ~save_fails
                  /\ error_count' = error_count + 1
                  /\ UNCHANGED <<results, processed_count, checkpoints>>
             ELSE /\ IF r.outcome = "result"
                     THEN /\ results' = Append(results, r.result)
                          /\ processed_count' = processed_count + 1
                          /\ error_count' = error_count + (IF save_fails THEN 1 ELSE 0)
                     ELSE /\ error_count' = error_count + (IF save_fails THEN 2 ELSE 1)
                          /\ UNCHANGED <<results, processed_count>>
                  /\ IF save_fails
                     THEN /\ (i + 1) % config.SAVE_INTERVAL = 0
                          /\ results' # <<>>
                          /\ UNCHANGED checkpoints
                     ELSE checkpoints' =
                            IF (i + 1) % config.SAVE_INTERVAL = 0
                            THEN SaveIntermediateResults(checkpoints, results', i + 1)
                            ELSE checkpoints
    /\ i' = i + 1
    /\ UNCHANGED <<scan, msms_cache, pesudo, intf, lookups, config, compounds_to_process, output, pc>>

\* a pass of the loop whose checkpoint is written
Iterate == IterateStep(FALSE)

\* a pass of the loop whose checkpoint write raises
IterateSaveFails == IterateStep(TRUE)

\* after the loop: the statistics (the success rate divides by the number
\* of targets) and the final write
Finish ==
    /\ pc = "loop"
    /\ i = Len(compounds_to_process)
    /\ IF Len(compounds_to_process) = 0
       THEN /\ pc' = "aborted"
            /\ UNCHANGED output
       ELSE /\ output' = IF results # <<>> THEN <<results>> ELSE output
            /\ pc' = "done"
    /\ UNCHANGED <<scan, msms_cache, loaderVars, intf, config, compounds_to_process, i, results,
                   processed_count, error_count, checkpoints, trace>>

NextRun == StartBatch \/ StartSingle \/ Iterate \/ Finish

SpecRun == InitRun /\ [][NextRun]_vars

Batch == ~config.SINGLE_COMPOUND_MODE /\ pc # "start"

\* a required collection is absent or holds no partitions
MissingCollection ==
    \/ ~pesudo.exists \/ Len(pesudo.parts) = 0
    \/ ~intf.exists \/ Len(intf.parts) = 0

\* C3: when a batch run with both collections in place completes, the final
\* table has exactly one row per target compound iterated.
C3_OneRowPerTarget ==
    (Batch /\ pc = "done" /\ ~MissingCollection) =>
        /\ Len(output) = 1
        /\ Len(output[1]) = Len(compounds_to_process)

\* the results of the first m target compounds
ResultsUpTo(m) ==
    SelectSeq(results, LAMBDA r : \E n \in 1..m : r.InChIKey = compounds_to_process[n])

\* C4: at every point of the batch loop (both collections in place) some
\* checkpoint holds every result produced for the compounds up to the last
\* multiple of SAVE_INTERVAL compounds iterated.
C4_CheckpointCoversInterval ==
    (Batch /\ pc = "loop" /\ ~MissingCollection) =>
        LET m == (i \div config.SAVE_INTERVAL) * config.SAVE_INTERVAL
            due == ResultsUpTo(m)
        IN due # <<>> =>
              \E c \in 1..Len(checkpoints) :
                 \A n \in 1..Len(due) :
                    \E k \in 1..Len(checkpoints[c].rows) : checkpoints[c].rows[k] = due[n]

\* C5: a batch run over any target list (both collections in place) visits
\* every target compound and reaches the final result-writing step; it is
\* never ended by an error.
C5_BatchReachesFinalWrite ==
    (Batch /\ ~MissingCollection) =>
        /\ pc # "aborted"
        /\ pc = "done" => i = Len(compounds_to_process)

\* C6: when a required collection is absent or holds no partitions, the run
\* neither iterates over the target compounds nor finishes normally, in batch
\* mode and in single-compound mode.
C6_MissingCollectionAborts ==
    MissingCollection =>
        /\ i = 0
        /\ pc # "done"
        /\ pc = "returned" => output = <<>>

\* the compound iterated last ended for want of candidates: fewer than 2
\* usable ions, fewer than 2 ranked ions, or no valid pair
InsufficientCandidates ==
    /\ i > 0
    /\ trace.stage \in {"few ions", "few ranked", "no pairs"}

\* C11: a compound with fewer than 2 usable ions, or with no valid pair, gets
\* a result record with the "no combination" marker, appended to the results,
\* in either method.
C11_InsufficientCandidatesRecorded ==
    InsufficientCandidates =>
        /\ results # <<>>
        /\ results[Len(results)].marker = "no combination"
        /\ results[Len(results)].InChIKey = compounds_to_process[i]

(***************************************************************************)
(* SpecFaults: key lookups and range queries while partitions become       *)
(* unreadable and readable again.  The library has MaxParts partitions of  *)
(* two rows, the interference collection MaxParts partitions of one row,   *)
(* the last one outside the mass window.                                   *)
(***************************************************************************)
MaxParts == 3

PartNames == <<"p1.csv", "p2.csv", "p3.csv", "p4.csv", "p5.csv">>
OwnKeys == <<K_AB, K_b, K_a_b>>
OwnKey(p) == OwnKeys[((p - 1) % Len(OwnKeys)) + 1]

FaultLibrary ==
    Folder([p \in 1..MaxParts |->
              Part(PartNames[p],
                   <<Row(<<p, 1>>, K_ab, "[M+H]+", PrecursorMass, CompoundRT, "P", 0, 0, 0, 0),
                     Row(<<p, 2>>, OwnKey(p), "[M+H]+", PrecursorMass, CompoundRT, "P", 0, 0, 0, 0)>>)])

FaultCollection(shape) ==
    Folder([p \in 1..MaxParts |->
              [name |-> PartNames[p], readable |-> TRUE, shape |-> shape,
               rows |-> <<Row(<<p, 1>>, OwnKey(p), "[M+H]+",
                              IF p = MaxParts THEN PrecursorMass + 2 * NIST_MZ_TOLERANCE
                              ELSE PrecursorMass,
                              CompoundRT, "P", 0, 0, 0, 0)>>]])

InitFaults ==
    /\ pesudo = FaultLibrary
    /\ \E shape \in {"nist", "qe"} : intf = FaultCollection(shape)
    /\ cache = NoFile
    /\ file_indexes = NoIndex
    /\ lookups = <<>>
    /\ RunIdle

\* the key under which a range query is logged
RangeKey == <<"range">>

\* one call of query_interference_by_range(INTF_TQDB_PATH, ...), the columns
\* of the predicate being those the collection has
RangeQuery ==
    LET q == QueryInterferenceByRange(intf, PrecursorMass, CompoundRT,
                                      NIST_MZ_TOLERANCE, RT_TOLERANCE,
                                      intf.parts[1].shape = "qe")
    IN /\ lookups' = <<[key |-> RangeKey, raised |-> q.raised, frame |-> q.frame]>>
                       \o SubSeq(lookups, 1, Min({Len(lookups), 1}))
       /\ UNCHANGED <<scan, msms_cache, pesudo, intf, cache, file_indexes, runVars, trace>>

SetReadable(folder, p, b) == [folder EXCEPT !.parts[p].readable = b]

\* the environment: the p-th partition file of the library and of the
\* collection becomes unreadable, or readable again; the log of calls starts
\* afresh
PartitionFault(p) ==
    /\ pesudo' = SetReadable(pesudo, p, ~pesudo.parts[p].readable)
    /\ intf' = SetReadable(intf, p, ~intf.parts[p].readable)
    /\ lookups' = <<>>
    /\ UNCHANGED <<scan, msms_cache, cache, file_indexes, runVars, trace>>

NextFaults ==
    \/ \E k \in {K_ab, K_AB, K_b} : Query(k)
    \/ RangeQuery
    \/ \E p \in 1..MaxParts : PartitionFault(p)

SpecFaults == InitFaults /\ [][NextFaults]_vars

Healthy(folder) ==
    [folder EXCEPT !.parts = [p \in 1..Len(folder.parts) |->
                                [folder.parts[p] EXCEPT !.readable = TRUE]]]
ReadableRows(folder) ==
    UNION {{folder.parts[p].rows[n] : n \in 1..Len(folder.parts[p].rows)} :
             p \in {x \in 1..Len(folder.parts) : folder.parts[x].readable}}

\* every key the partition contributes on its own lists the partition
IndexCovers(index, part) ==
    LET own == IndexPartition(<<>>, part)
    IN \A n \in 1..Len(own) :
          /\ IndexHas(index, own[n].key)
          /\ \E j \in 1..Len(IndexGet(index, own[n].key).items) :
                IndexGet(index, own[n].key).items[j] = StrLoc(part.name)

\* a logged call returned normally with every row of a readable partition
\* that it returns when no partition fails (key lookup, same index), or that
\* satisfies the predicate (range query)
CallIsolated(l, index) ==
    /\ ~l.raised
    /\ IF l.key = RangeKey
       THEN \A row \in ReadableRows(intf) :
               (/\ Abs(row.PrecursorMZ - PrecursorMass) <= NIST_MZ_TOLERANCE
                /\ Abs(row.RT - CompoundRT) <= RT_TOLERANCE)
                   => row \in FrameRows(l.frame)
       ELSE \A row \in ReadableRows(pesudo) :
               row \in FrameRows(QueryIndex(index, Healthy(pesudo), l.key).frame)
                   => row \in FrameRows(l.frame)

FailureIsolated ==
    /\ (~file_indexes.built /\ file_indexes'.built) =>
          \A p \in 1..Len(pesudo.parts) :
              pesudo.parts[p].readable => IndexCovers(file_indexes'.index, pesudo.parts[p])
    /\ (lookups' # <<>> /\ lookups' # lookups) =>
          CallIsolated(lookups'[1], file_indexes'.index)

\* C12: when a partition cannot be read during index construction, a key
\* lookup or a range query, the call returns normally: the index lists every
\* readable partition under each of its keys, and the result holds every
\* matching row of every readable partition.
C12_FailureIsolated == [][FailureIsolated]_vars

\* C12 witness: with an unreadable partition in the library, a lookup of a
\* key stored in every partition returned rows of a readable partition; and
\* with an unreadable partition in the collection a range query returned the
\* row of a readable one.
C12_Witness ==
    /\ Len(lookups) = 2
    /\ lookups[1].key = K_ab
    /\ lookups[2].key = RangeKey
    /\ ~pesudo.parts[1].readable
    /\ pesudo.parts[2].readable
    /\ pesudo.parts[2].rows[1] \in FrameRows(lookups[1].frame)
    /\ ~intf.parts[1].readable
    /\ intf.parts[2].rows[1] \in FrameRows(lookups[2].frame)

(***************************************************************************)
(* SpecRebuild: the lookups of SpecLoader, and a later run whose loader    *)
(* builds the index of the unchanged library again, from the persisted     *)
(* cache or after the cache file was removed.                              *)
(***************************************************************************)
\* the libraries: each of the two partitions holds no row or one row
RebuildKeys == {<<>>, <<K_ab>>, <<K_AB>>, <<K_a_b>>, <<K_sp_ab>>, <<K_b>>, <<NoneStr>>}
InitRebuild ==
    /\ \E ks1, ks2 \in RebuildKeys : pesudo = KeyFolder(ks1, ks2)
    /\ intf = NoFolder
    /\ cache = NoFile
    /\ file_indexes = NoIndex
    /\ lookups = <<>>
    /\ RunIdle

\* a new LazyFileLoader builds the index of the library a second time
Rebuild(removed) ==
    /\ file_indexes.built
    /\ \E b \in {BuildFileIndex(IF removed THEN NoFile ELSE cache, pesudo)} :
          /\ ~b.raised
          /\ file_indexes' = [built |-> TRUE, index |-> b.index]
          /\ cache' = b.cache
    /\ lookups' = <<>>
    /\ UNCHANGED <<scan, msms_cache, pesudo, intf, runVars, trace>>

NextRebuild ==
    \/ \E k \in {K_ab, K_AB, K_b} : Query(k)
    \/ \E removed \in BOOLEAN : Rebuild(removed)

SpecRebuild == InitRebuild /\ [][NextRebuild]_vars

\* the partition locations an index lists under a key
LocationsOf(index, k) ==
    IF ~IndexHas(index, k) THEN {}
    ELSE {IndexGet(index, k).items[n] : n \in 1..Len(IndexGet(index, k).items)}
IndexKeys(index) == {index[n].key : n \in 1..Len(index)}

SameIndex(index1, index2) ==
    /\ IndexKeys(index1) = IndexKeys(index2)
    /\ \A k \in IndexKeys(index1) : LocationsOf(index1, k) = LocationsOf(index2, k)
    /\ \A k \in QueryKeys :
          LET q1 == QueryIndex(index1, pesudo, k)
              q2 == QueryIndex(index2, pesudo, k)
          IN q1.raised = q2.raised /\ FrameRows(q1.frame) = FrameRows(q2.frame)

MaxBatch == 2

ScanRow(p, near) ==
    Row(<<p, 1>>, OwnKey(p), "[M+H]+",
        IF near THEN PrecursorMass ELSE PrecursorMass + 2 * NIST_MZ_TOLERANCE,
        CompoundRT, "P", 0, 0, 0, 0)

ScanCollections ==
    {Folder([p \in 1..n |-> Part(PartNames[p], <<ScanRow(p, near[p])>>)]) :
        n \in 0..MaxParts, near \in [1..MaxParts -> BOOLEAN]}

ScanParams == RangeParams(PrecursorMass, CompoundRT, NIST_MZ_TOLERANCE, RT_TOLERANCE, FALSE)

InitScan ==
    /\ pesudo = Folder(<<>>)
    /\ intf \in ScanCollections
    /\ cache = NoFile
    /\ file_indexes = NoIndex
    /\ lookups = <<>>
    /\ RunIdle

StartScan(batch_size) ==
    /\ scan.pc = "idle"
    /\ intf.exists
    /\ scan' = ScanStart(intf, batch_size, ScanParams)
    /\ UNCHANGED <<msms_cache, loaderVars, intf, runVars, trace>>

ReadFile ==
    /\ scan.pc = "batch"
    /\ scan.j < BatchFiles(scan, intf)
    /\ scan' = ScanFile(scan, intf)
    /\ UNCHANGED <<msms_cache, loaderVars, intf, runVars, trace>>

EndBatch ==
    /\ scan.pc = "batch"
    /\ scan.j = BatchFiles(scan, intf)
    /\ scan' = ScanEndBatch(scan, intf)
    /\ UNCHANGED <<msms_cache, loaderVars, intf, runVars, trace>>

Return ==
    /\ scan.pc = "return"
    /\ scan' = ScanReturn(scan)
    /\ UNCHANGED <<msms_cache, loaderVars, intf, runVars, trace>>

NextScan ==
    \/ \E batch_size \in 1..MaxBatch : StartScan(batch_size)
    \/ ReadFile
    \/ EndBatch
    \/ Return

SpecScan == InitScan /\ [][NextScan]_vars

\* the rows of partitions first..last that are inside the window, in order
WindowRows(first, last) ==
    ConcatAll([p \in 1..(last - first + 1) |->
                 MaskedRows(intf.parts[first + p - 1].rows, ScanParams)])

CeilDiv(n, b) == (n + b - 1) \div b

\* C15: during the range query the batch buffer holds only the matched rows
\* of the files read in the current batch, at most B of them; the list of
\* finished batches holds the matched rows of the earlier batches; a batch
\* starts with an empty buffer; and at the end ceil(N/B) batches were
\* processed, every partition read in exactly one of them.
C15_BatchesBounded ==
    LET N == Len(intf.parts)
        B == scan.batch_size
        finished == IF scan.pc = "batch" THEN scan.i ELSE N
    IN scan.pc # "idle" =>
          /\ ConcatAll(scan.all_data) = WindowRows(1, finished)
          /\ Len(scan.all_data) <= scan.batches
          /\ scan.pc = "batch" =>
                /\ scan.j <= B
                /\ ConcatAll(scan.batch_data) = WindowRows(scan.i + 1, scan.i + scan.j)
                /\ scan.i = (scan.batches - 1) * B
          /\ scan.pc # "batch" =>
                /\ scan.batch_data = <<>>
                /\ scan.batches = CeilDiv(N, B)
                /\ Len(scan.reads) = N
                /\ \A p \in 1..N :
                      /\ scan.reads[p].part = intf.parts[p].name
                      /\ scan.reads[p].batch = ((p - 1) \div B) + 1
          /\ scan.pc = "done" =>
                scan.result = QueryInterferenceByRange(intf, PrecursorMass, CompoundRT,
                                  NIST_MZ_TOLERANCE, RT_TOLERANCE, FALSE).frame

\* C15 witness: the query over three partitions with batch size 2 is in its
\* second batch, the first batch's matched rows are in the accumulated
\* output and the buffer holds only the third partition's row.
C15_Witness ==
    /\ scan.pc = "batch"
    /\ scan.batch_size = 2
    /\ Len(intf.parts) = 3
    /\ scan.batches = 2
    /\ scan.j = 1
    /\ Len(scan.all_data) = 1
    /\ Len(scan.all_data[1]) = 2
    /\ scan.batch_data = <<intf.parts[3].rows>>

(***************************************************************************)
(* SpecScoring: generate_ion_pairs and calculate_scores of both methods on *)
(* drawn ion lists of up to MaxIons ions and drawn interference records,   *)
(* and calculate_scores again after one candidate's intensity was raised.  *)
(***************************************************************************)
ScoringIons ==
    {Ion(1000000, 0, 30, 10),
     Ion(1000000, 500, 30, 10),
     Ion(1000005, 200, 30, 10),
     Ion(1500000, 300, 90, 30),
     Ion(2000000, 0, 90, 30),
     Ion(2000000, 400, 90, 30)}
ScoringLists == UNION {[1..m -> ScoringIons] : m \in 0..MaxIons}
RaiseSteps == {100, 1000}

InitScoring ==
    /\ \E ions \in ScoringLists : pesudo = IonFolder(ions)
    /\ \E nist \in BOOLEAN :
          /\ intf \in (IF nist THEN InterferenceNIST ELSE InterferenceQE)
          /\ IdleBut([DefaultConfig EXCEPT !.USE_NIST_METHOD = nist],
                     [NoTrace EXCEPT !.method = IF nist THEN "nist" ELSE "qe"])
    /\ cache = NoFile
    /\ file_indexes = NoIndex
    /\ lookups = <<>>

\* the interference records handed to calculate_scores, in their tiers
ScoringRows == ConcatAll([p \in 1..Len(intf.parts) |-> intf.parts[p].rows])
ScoringTiers ==
    IF config.USE_NIST_METHOD
    THEN [low |-> TierRows(ScoringRows, NCETierOfRow, "low"),
          medium |-> TierRows(ScoringRows, NCETierOfRow, "medium"),
          high |-> TierRows(ScoringRows, NCETierOfRow, "high")]
    ELSE [low |-> TierRows(ScoringRows, CETierOfRow, "low"),
          medium |-> TierRows(ScoringRows, CETierOfRow, "medium"),
          high |-> TierRows(ScoringRows, CETierOfRow, "high")]
CoverageOf(tier) == Cardinality(KeysOf(ScoringTiers[tier]))
CoverageAll == Cardinality(KeysOf(ScoringRows))

CalculateScores(cands) ==
    IF config.USE_NIST_METHOD THEN CalculateScoresNIST(cands, ScoringTiers, CoverageAll)
    ELSE CalculateScoresQE(cands, ScoringTiers)

\* generate_ion_pairs on the drawn ions
GeneratePairs ==
    /\ trace.stage = "none"
    /\ \E ions \in {pesudo.parts[1].rows} :
          trace' = [trace EXCEPT !.stage = "pairs", !.ranked = ions,
                                 !.candidates = IF config.USE_NIST_METHOD
                                                THEN GenerateIonPairsNIST(ions)
                                                ELSE GenerateIonPairsQE(ions)]
    /\ UNCHANGED <<scan, msms_cache, pesudo, intf, cache, file_indexes, lookups, runVars>>

\* calculate_scores on the candidates
Score ==
    /\ trace.stage = "pairs"
    /\ trace.candidates # <<>>
    /\ \E scored \in {CalculateScores(trace.candidates)} :
          trace' = [trace EXCEPT !.stage = "scored", !.scored = scored]
    /\ UNCHANGED <<scan, msms_cache, pesudo, intf, cache, file_indexes, lookups, runVars>>

\* calculate_scores on the same candidates and interference, candidate n's
\* intensity1 raised by delta
ScoreRaised(n, delta) ==
    /\ trace.stage = "scored"
    /\ n \in 1..Len(trace.candidates)
    /\ \E cands \in {[trace.candidates EXCEPT ![n].intensity1 = @ + delta]} :
          trace' = [trace EXCEPT !.stage = "rescored", !.candidates = cands,
                                 !.scored = CalculateScores(cands)]
    /\ UNCHANGED <<scan, msms_cache, pesudo, intf, cache, file_indexes, lookups, runVars>>

NextScoring ==
    \/ GeneratePairs
    \/ Score
    \/ \E n \in 1..MaxIons * MaxIons, delta \in RaiseSteps : ScoreRaised(n, delta)

SpecScoring == InitScoring /\ [][NextScoring]_vars

\* C16: with the other candidates and the interference unchanged, raising
\* one candidate's combined intensity never lowers that candidate's
\* sensitivity_score, in either method.
C16_SensitivityMonotone ==
    [][\A n \in 1..MaxIons * MaxIons, delta \in RaiseSteps :
          ScoreRaised(n, delta) =>
              RatLE(trace.scored[n].sensitivity_score,
                    trace'.scored[n].sensitivity_score)]_vars

\* C16 witness: a candidate list of the overlap method was scored again
\* after a raise that made the raised candidate the strongest: it has
\* sensitivity 1 and another candidate less.
C16_Witness ==
    /\ trace.stage = "rescored"
    /\ trace.method = "qe"
    /\ \E m, n \in 1..Len(trace.scored) :
          /\ ~trace.scored[n].fallback
          /\ trace.scored[n].sensitivity_score = <<trace.scored[n].intensity_sum,
                                                   trace.scored[n].intensity_sum>>
          /\ trace.scored[m].intensity_sum < trace.scored[n].intensity_sum

\* the ions available for pairing: all of them in the overlap method, those
\* left by the near-duplicate suppression in the coverage method
AvailableIons ==
    IF trace.method = "nist" THEN UniqueIons(SortByIntensity(trace.ranked))
    ELSE trace.ranked

\* C17: generate_ion_pairs returns no candidate when fewer than 2 ions are
\* available for pairing (coverage method: after near-duplicate suppression).
C17_FewIonsNoPairs ==
    (trace.stage = "pairs" /\ Len(AvailableIons) < 2) => trace.candidates = <<>>

\* C17 witness: the coverage method got two ions within 0.001 of each other,
\* one was suppressed, and no candidate was returned.
C17_Witness ==
    /\ trace.stage = "pairs"
    /\ trace.method = "nist"
    /\ Len(trace.ranked) = 2
    /\ Len(AvailableIons) = 1
    /\ trace.candidates = <<>>

\* the distinct keys of the interference records of the ion's own NCE tier
\* whose fragment mass is within 1 mass unit of the ion
HitKeys(msms, nce) ==
    {ScoringRows[k].InChIKey :
        k \in {x \in 1..Len(ScoringRows) :
                 /\ NCETier(ScoringRows[x].NCE) = NCETier(nce)
                 /\ Abs(ScoringRows[x].MSMS - msms) <= HIT_TOLERANCE}}
PairHits(c) == Cardinality(HitKeys(c.MSMS1, c.NCE1) \cup HitKeys(c.MSMS2, c.NCE2))
RateIs(s, coverage) ==
    IF coverage = 0 THEN RatEq(s.hit_rate, <<0, 1>>)
    ELSE RatEq(s.hit_rate, <<PairHits(s.pair), coverage>>)

ScoredNIST == trace.stage \in {"scored", "rescored"} /\ trace.method = "nist"

OtherRecords ==
    LET rows == ConcatAll([p \in 1..Len(intf.parts) |-> intf.parts[p].rows])
    IN SelectSeq(rows, LAMBDA r : /\ Abs(r.PrecursorMZ - PrecursorMass) <= NIST_MZ_TOLERANCE
                                  /\ Abs(r.RT - CompoundRT) <= RT_TOLERANCE
                                  /\ r.Ion_mode = "P"
                                  /\ r.InChIKey # K_ab)
OtherHits(msms, nce) ==
    KeysOf(SelectSeq(OtherRecords, LAMBDA r : /\ NCETier(r.NCE) = NCETier(nce)
                                              /\ Abs(r.MSMS - msms) <= HIT_TOLERANCE))

\* C19: the keys counted in a candidate's hit count are keys of other
\* compounds only: the target's own records inside the window are not
\* counted.
C19_OnlyOtherCompoundsCounted ==
    (trace.stage = "selected" /\ trace.method = "nist") =>
        \A n \in 1..Len(trace.scored) :
            trace.scored[n].hit_num =
                Cardinality(OtherHits(trace.scored[n].pair.MSMS1, trace.scored[n].pair.NCE1)
                              \cup OtherHits(trace.scored[n].pair.MSMS2, trace.scored[n].pair.NCE2))

(***************************************************************************)
(* Claims on select_best_pairs (SpecIons).                                 *)
(***************************************************************************)
TopN == IF trace.method = "nist" THEN TOP_NIST ELSE TOP_QE
SharingPair(k) == {n \in 1..Len(trace.scored) : MSMSCombined(trace.scored[n]) = k}
ScoredPairs == {MSMSCombined(trace.scored[n]) : n \in 1..Len(trace.scored)}

\* a survivor of the mass pair k is a candidate of maximal score among the
\* candidates of that pair
KeepsMax(k) ==
    \E s \in 1..Len(trace.survivors) :
        /\ \E n \in SharingPair(k) : trace.survivors[s] = trace.scored[n]
        /\ \A n \in SharingPair(k) : RatLE(trace.scored[n].score, trace.survivors[s].score)

\* a survivor of the mass pair k is the first candidate of that pair
KeepsFirst(k) ==
    \E s \in 1..Len(trace.survivors) : trace.survivors[s] = trace.scored[Min(SharingPair(k))]

\* the best candidate is a survivor of maximal score; the top list holds at
\* most N survivors in non-increasing order of score, the first of them with
\* the score of the best candidate
BestAndTop ==
    /\ Len(trace.best) = 1
    /\ \E s \in 1..Len(trace.survivors) : trace.best[1] = trace.survivors[s]
    /\ \A s \in 1..Len(trace.survivors) : RatLE(trace.survivors[s].score, trace.best[1].score)
    /\ Len(trace.top) >= 1
    /\ Len(trace.top) <= TopN
    /\ \A n \in 1..Len(trace.top) :
          \E s \in 1..Len(trace.survivors) : trace.top[n] = trace.survivors[s]
    /\ \A n \in 1..(Len(trace.top) - 1) : RatLE(trace.top[n + 1].score, trace.top[n].score)
    /\ RatEq(trace.top[1].score, trace.best[1].score)

ScoredQE == trace.stage \in {"scored", "rescored"} /\ trace.method = "qe"
CombinedIntensity(s) == s.pair.intensity1 + s.pair.intensity2
MaxCombinedIntensity == Max({CombinedIntensity(trace.scored[n]) : n \in 1..Len(trace.scored)})
MaxSummedInterference ==
    Max({trace.scored[n].interference_level_sum : n \in 1..Len(trace.scored)})

\* C21: when the maximum combined intensity or the maximum summed
\* interference is zero, sensitivity_score and score are the raw combined
\* intensity; otherwise sensitivity = combined intensity / maximum,
\* specificity = -(1 + interference) / (1 + maximum) and score is their
\* weighted sum.
C21_ScoresOrFallback ==
    ScoredQE =>
        \A n \in 1..Len(trace.scored) :
            LET s == trace.scored[n]
                sens == <<CombinedIntensity(s), MaxCombinedIntensity>>
                spec == <<-(1 + s.interference_level_sum), 1 + MaxSummedInterference>>
            IN IF MaxCombinedIntensity = 0 \/ MaxSummedInterference = 0
               THEN /\ RatEq(s.sensitivity_score, <<CombinedIntensity(s), 1>>)
                    /\ RatEq(s.score, <<CombinedIntensity(s), 1>>)
               ELSE /\ RatEq(s.sensitivity_score, sens)
                    /\ RatEq(s.specificity_score, spec)
                    /\ RatEq(s.score,
                             <<SENSITIVITY_WEIGHT * sens[1] * spec[2]
                                  + SPECIFICITY_WEIGHT * spec[1] * sens[2],
                               WEIGHT_UNIT * sens[2] * spec[2]>>)

\* C21 witness: candidates with intensity were scored against records none
\* of whose peaks is near a candidate mass: the score is the raw intensity.
C21_Witness ==
    /\ ScoredQE
    /\ MaxSummedInterference = 0
    /\ MaxCombinedIntensity > 0
    /\ \A n \in 1..Len(trace.scored) :
          trace.scored[n].score = <<CombinedIntensity(trace.scored[n]), 1>>

\* the normal branch was taken as well
C21_NormalBranchScored ==
    /\ ScoredQE
    /\ MaxSummedInterference > 0
    /\ MaxCombinedIntensity > 0

(***************************************************************************)
(* Claims on the row filter of query_by_inchikey (SpecLoader).             *)
(***************************************************************************)
\* the key the predicates of lines 267-271 compare with: the indexed key the
\* lookup resolved to
ResolvedKey(l) == ResolveKey(file_indexes.index, StrStrip(l.key)).key
StoredKey(row) == StrStrip(AsStr(row.InChIKey))
ExactMatch(row, k) == StoredKey(row) = k
CleanMatch(row, k) == RegexClean(StoredKey(row)) = ChainClean(k)
LowerMatch(row, k) == StrLower(StoredKey(row)) = StrLower(k)
SomeMatch(row, k) == ExactMatch(row, k) \/ CleanMatch(row, k) \/ LowerMatch(row, k)

\* C22, as stated: the three predicates are fallbacks in this order; a row
\* that only a later predicate accepts is returned only when no returned row
\* is accepted by an earlier one, and every returned row satisfies one of
\* the three.
C22_OrderedFallbacks ==
    file_indexes.built =>
        \A n \in 1..Len(lookups) :
            LET k == ResolvedKey(lookups[n])
                rows == FrameRows(lookups[n].frame)
            IN \A row \in rows :
                  /\ SomeMatch(row, k)
                  /\ ~ExactMatch(row, k) => \A other \in rows : ~ExactMatch(other, k)
                  /\ ~ExactMatch(row, k) /\ ~CleanMatch(row, k)
                        => \A other \in rows : ~CleanMatch(other, k)

\* C22, amended: the three predicates are combined with OR; every returned
\* row satisfies at least one of them, so rows of other keys stored in the
\* same partition are never returned.
C22_EveryRowMatches ==
    file_indexes.built =>
        \A n \in 1..Len(lookups) :
            \A row \in FrameRows(lookups[n].frame) :
                SomeMatch(row, ResolvedKey(lookups[n]))

\* C22 witness: a lookup returned a row of the exact key together with a
\* row that only the case-insensitive predicate accepts.
C22_Witness ==
    /\ file_indexes.built
    /\ Len(lookups) > 0
    /\ \E r1, r2 \in FrameRows(lookups[1].frame) :
          /\ ExactMatch(r1, ResolvedKey(lookups[1]))
          /\ ~ExactMatch(r2, ResolvedKey(lookups[1]))
          /\ ~CleanMatch(r2, ResolvedKey(lookups[1]))
          /\ LowerMatch(r2, ResolvedKey(lookups[1]))

(***************************************************************************)
(* SpecShapes: query_interference_by_range, file by file, with either      *)
(* predicate shape over collections that mix partitions with the columns   *)
(* of the coverage method ("nist") and of the overlap method ("qe"), of    *)
(* one or two rows each.                                                   *)
(***************************************************************************)
ShapeRows(p, near, long) ==
    [n \in 1..(IF long THEN 2 ELSE 1) |->
        Row(<<p, n>>, OwnKey(p), "[M+H]+",
            IF near THEN PrecursorMass ELSE PrecursorMass + 2 * NIST_MZ_TOLERANCE,
            CompoundRT, "P", 0, 0, 0, 0)]

ShapePart(p, shape, near, long) ==
    [name |-> PartNames[p], readable |-> TRUE, shape |-> shape,
     rows |-> ShapeRows(p, near, long)]

ShapeCollections ==
    {Folder([p \in 1..n |-> ShapePart(p, shape[p], near[p], long[p])]) :
        n \in 0..MaxParts, shape \in [1..MaxParts -> {"nist", "qe"}],
        near \in [1..MaxParts -> BOOLEAN], long \in [1..MaxParts -> BOOLEAN]}

InitShapes ==
    /\ pesudo = Folder(<<>>)
    /\ intf \in ShapeCollections
    /\ cache = NoFile
    /\ file_indexes = NoIndex
    /\ lookups = <<>>
    /\ RunIdle

\* the call query_interference_by_range(folder, precursormz, rt, ...,
\* use_avg_mz) starts
StartShapes(batch_size, use_avg_mz) ==
    /\ scan.pc = "idle"
    /\ scan' = ScanStart(intf, batch_size,
                         RangeParams(PrecursorMass, CompoundRT, NIST_MZ_TOLERANCE,
                                     RT_TOLERANCE, use_avg_mz))
    /\ UNCHANGED <<msms_cache, loaderVars, intf, runVars, trace>>

NextShapes ==
    \/ \E batch_size \in 1..MaxBatch, use_avg_mz \in BOOLEAN :
          StartShapes(batch_size, use_avg_mz)
    \/ ReadFile
    \/ EndBatch
    \/ Return

SpecShapes == InitShapes /\ [][NextShapes]_vars

\* the rows of the partitions that have the columns of the selected shape
\* and lie within both tolerances, in partition order
RowsInWindow(params) ==
    ConcatAll([p \in 1..Len(intf.parts) |->
        IF intf.parts[p].readable
           /\ intf.parts[p].shape = (IF params.use_avg_mz THEN "qe" ELSE "nist")
        THEN SelectSeq(intf.parts[p].rows,
                LAMBDA r : /\ Abs(r.PrecursorMZ - params.precursormz) <= params.mz_tolerance
                           /\ Abs(r.RT - params.rt) <= params.rt_tolerance)
        ELSE <<>>])

\* C23: for both predicate shapes the result of the range query is exactly
\* the rows of the readable partitions within both tolerances, in partition
\* order; partitions that lack the selected columns contribute no row.
C23_ExactlyRowsInWindow ==
    scan.pc = "done" => scan.result.rows = RowsInWindow(scan.params)

\* the same for the predicate on 'PrecursorMZ' and 'RT' alone
C23_ExactWithoutAvgMz ==
    scan.pc = "done" /\ ~scan.params.use_avg_mz
        => scan.result.rows = RowsInWindow(scan.params)

(***************************************************************************)
(* SpecStale: the lookups of SpecRebuild, and a later run, with a new      *)
(* loader, after the library was changed while the persisted index of the  *)
(* earlier run is still in the cache folder.                               *)
(***************************************************************************)
\* the partitions of the library change (rows are added, removed or get
\* other keys) after the index was persisted; the next run starts with a
\* loader that holds no index in memory
SourceChange(ks1, ks2) ==
    /\ file_indexes.built
    /\ cache # NoFile
    /\ pesudo # KeyFolder(ks1, ks2)
    /\ pesudo' = KeyFolder(ks1, ks2)
    /\ file_indexes' = NoIndex
    /\ lookups' = <<>>
    /\ UNCHANGED <<scan, msms_cache, cache, intf, runVars, trace>>

NextStale ==
    \/ \E k \in {K_ab, K_AB, K_b} : Query(k)
    \/ \E ks1, ks2 \in RebuildKeys : SourceChange(ks1, ks2)

SpecStale == InitRebuild /\ [][NextStale]_vars

\* C24: when the library changed after its index was persisted, the next
\* load of the index rebuilds it, so that a lookup of a key present in the
\* current library finds the rows stored under that key.
C24_StaleCacheRebuilt ==
    \A n \in 1..Len(lookups) :
        (\E row \in AllRows(pesudo) : row.InChIKey = lookups[n].key)
            => LiteralRowsReturned(lookups[n])

(***************************************************************************)
(* SpecRank: filter_and_rank_ions of both methods on ion lists long enough *)
(* for the cut to the first ten of a tier to drop ions: up to MaxExtraIons *)
(* ions more than the cut keeps, with a duplicate of the first ion's mass, *)
(* one ion of outstanding intensity, equal intensities and some ions in    *)
(* another tier.                                                           *)
(***************************************************************************)
MaxExtraIons == 2

\* ion j of a list: mass 100 + j (the mass of ion 1 at position dup), the
\* last `other` ions in the medium tier, the others in the low tier
RankIon(j, n, dup, high, other) ==
    [Ion((100 + (IF j = dup THEN 1 ELSE j)) * 10000,
         IF j = high THEN 1000 ELSE 100 + ((j * 7) % 11) * 10,
         IF j > n - other THEN 90 ELSE 30,
         IF j > n - other THEN 30 ELSE 10) EXCEPT !.id = <<1, j>>]

RankLists ==
    {[j \in 1..n |-> RankIon(j, n, dup, high, other)] :
        n \in (MAX_IONS_PER_CE - 1)..(MAX_IONS_PER_CE + MaxExtraIons),
        dup \in 0..(MAX_IONS_PER_CE + MaxExtraIons),
        high \in 0..(MAX_IONS_PER_CE + MaxExtraIons),
        other \in 0..1}

InitRank ==
    /\ \E ions \in RankLists : pesudo = IonFolder(ions)
    /\ intf = NoFolder
    /\ \E nist \in BOOLEAN :
          IdleBut([DefaultConfig EXCEPT !.USE_NIST_METHOD = nist],
                  [NoTrace EXCEPT !.method = IF nist THEN "nist" ELSE "qe"])
    /\ cache = NoFile
    /\ file_indexes = NoIndex
    /\ lookups = <<>>

\* filter_and_rank_ions(working_group) of the configured method
Rank ==
    /\ trace.stage = "none"
    /\ \E ions \in {pesudo.parts[1].rows} :
          trace' = [trace EXCEPT !.stage = "ranked", !.usable = ions,
                                 !.ranked = IF config.USE_NIST_METHOD
                                            THEN FilterAndRankIonsNIST(ions)
                                            ELSE FilterAndRankIonsQE(ions)]
    /\ UNCHANGED <<scan, msms_cache, pesudo, intf, cache, file_indexes, lookups, runVars>>

NextRank == Rank

SpecRank == InitRank /\ [][NextRank]_vars

\* the tier of an ion under the method of the call, and the cut of a tier
TierOfIon(r) == IF trace.method = "nist" THEN NCETier(r.NCE) ELSE CETier(r.CE)
TierCut == IF trace.method = "nist" THEN NIST_IONS_PER_TIER ELSE MAX_IONS_PER_CE
SameIon(a, b) == a.Name = b.Name /\ a.MSMS = b.MSMS
GivenOfTier(t) == {n \in 1..Len(trace.usable) : TierOfIon(trace.usable[n]) = t}
KeptOfTier(t) == {n \in 1..Len(trace.ranked) : TierOfIon(trace.ranked[n]) = t}

\* C25: in each tier filter_and_rank_ions keeps at most K ions, at most one
\* per (compound name, fragment mass), that one of highest intensity among
\* its duplicates of the tier, and no kept ion has a lower intensity than an
\* ion of the tier that the cut to the first K dropped.
C25_TopKPerTier ==
    trace.stage = "ranked" =>
        \A t \in {"low", "medium", "high"} :
            /\ Cardinality(KeptOfTier(t)) <= TierCut
            /\ \A m, n \in KeptOfTier(t) :
                  SameIon(trace.ranked[m], trace.ranked[n]) => m = n
            /\ \A m \in KeptOfTier(t) :
                  /\ \E g \in GivenOfTier(t) : trace.usable[g] = trace.ranked[m]
                  /\ \A g \in GivenOfTier(t) :
                        SameIon(trace.usable[g], trace.ranked[m])
                            => trace.usable[g].intensity <= trace.ranked[m].intensity
            /\ \A g \in GivenOfTier(t) :
                  (\A m \in KeptOfTier(t) : ~SameIon(trace.usable[g], trace.ranked[m]))
                      => \A m \in KeptOfTier(t) :
                            trace.usable[g].intensity <= trace.ranked[m].intensity

\* C25 witness: the coverage method ranked a low tier of more than ten
\* different ions, one of them given twice; ten were kept, the duplicate and
\* the weakest ions were dropped, and the ion of outstanding intensity,
\* given last, is kept.
C25_Witness ==
    /\ trace.stage = "ranked"
    /\ trace.method = "nist"
    /\ Cardinality(GivenOfTier("low")) = NIST_IONS_PER_TIER + 2
    /\ Cardinality(KeptOfTier("low")) = NIST_IONS_PER_TIER
    /\ \E g, h \in GivenOfTier("low") :
          g # h /\ SameIon(trace.usable[g], trace.usable[h])
    /\ trace.usable[Len(trace.usable)].intensity = 1000
    /\ trace.ranked[1] = trace.usable[Len(trace.usable)]

\* the same for the overlap method
C25_WitnessQE ==
    /\ trace.stage = "ranked"
    /\ trace.method = "qe"
    /\ Cardinality(GivenOfTier("low")) > MAX_IONS_PER_CE
    /\ Cardinality(KeptOfTier("low")) = MAX_IONS_PER_CE

(***************************************************************************)
(* Claims on the near-duplicate suppression of the coverage method's       *)
(* generate_ion_pairs (SpecScoring).                                       *)
(***************************************************************************)
PairsGeneratedNIST == trace.stage \in {"pairs", "scored"} /\ trace.method = "nist"

\* the ions of a candidate
FirstIonOf(c) == <<c.MSMS1, c.intensity1, c.NCE1, c.CE1>>
SecondIonOf(c) == <<c.MSMS2, c.intensity2, c.NCE2, c.CE2>>
IonOf(r) == <<r.MSMS, r.intensity, r.NCE, r.CE>>

\* C26: after the near-duplicate suppression any two accepted ions differ
\* in mass by at least 0.001, every suppressed ion lies within 0.001 of an
\* accepted ion of at least its intensity, and the pairs are formed from
\* accepted ions only.
C26_AcceptedIonsApart ==
    PairsGeneratedNIST =>
        LET accepted == AvailableIons
            given == pesudo.parts[1].rows
        IN /\ \A m, n \in 1..Len(accepted) :
                 m # n => Abs(accepted[m].MSMS - accepted[n].MSMS) >= MSMS_DEDUP_TOLERANCE
           /\ \A a \in 1..Len(accepted) : \E g \in 1..Len(given) : given[g] = accepted[a]
           /\ \A g \in 1..Len(given) :
                 \E a \in 1..Len(accepted) :
                    /\ Abs(accepted[a].MSMS - given[g].MSMS) < MSMS_DEDUP_TOLERANCE
                    /\ accepted[a].intensity >= given[g].intensity
           /\ \A c \in 1..Len(trace.candidates) :
                 \E a, b \in 1..Len(accepted) :
                    /\ a # b
                    /\ FirstIonOf(trace.candidates[c]) = IonOf(accepted[a])
                    /\ SecondIonOf(trace.candidates[c]) = IonOf(accepted[b])

\* C26 witness: of three ions, two within 0.001 of each other, the weaker
\* of the two was suppressed and one pair was formed from the other two.
C26_Witness ==
    /\ PairsGeneratedNIST
    /\ Len(pesudo.parts[1].rows) = 3
    /\ Len(AvailableIons) = 2
    /\ Len(trace.candidates) = 1
    /\ \E g, h \in 1..3 :
          /\ pesudo.parts[1].rows[g].MSMS # pesudo.parts[1].rows[h].MSMS
          /\ Abs(pesudo.parts[1].rows[g].MSMS - pesudo.parts[1].rows[h].MSMS)
                < MSMS_DEDUP_TOLERANCE

(***************************************************************************)
(* SpecMsms: calls of extract_intensity_from_msms_cached on one scorer,    *)
(* with texts that share masses, end in a number, hold "_" and malformed   *)
(* peaks, and with target masses that are also peaks' texts.               *)
(***************************************************************************)
MaxMsmsEntries == 3   \* entries of the cache

\* "100.0:40", "100.5:7", "150.0:30" and parts of them
P100 == <<Num(1000000), Sym(":"), Num(40)>>
P1005 == <<Num(1005000), Sym(":"), Num(7)>>
P150 == <<Num(1500000), Sym(":"), Num(30)>>
MsmsTexts ==
    {NaNCell,
     <<>>,
     P150,
     P100 \o <<Sym(" ")>> \o P1005,
     P100 \o <<Sym(" "), Sym(" ")>> \o P1005 \o <<Sym(" ")>> \o P150,
     <<Sym("x")>> \o P100 \o <<Sym(" ")>> \o P150,
     P100 \o <<Sym(":"), Num(1)>>,
     P150 \o <<Sym("_"), Num(100 * 10000)>>}
MsmsTargets == {100 * 10000, 150 * 10000, 40}

InitMsms ==
    /\ pesudo = Folder(<<>>)
    /\ intf = NoFolder
    /\ cache = NoFile
    /\ file_indexes = NoIndex
    /\ lookups = <<>>
    /\ RunIdle

\* one call extract_intensity_from_msms_cached(msms_spectrum, target_ion)
ExtractCall(msms_spectrum, target_ion) ==
    /\ \E r \in {ExtractIntensityCached(msms_cache, msms_spectrum, target_ion)} :
          /\ Cardinality(r.cache) <= MaxMsmsEntries
          /\ msms_cache' = r.cache
    /\ UNCHANGED <<scan, loaderVars, intf, runVars, trace>>

NextMsms == \E text \in MsmsTexts, target \in MsmsTargets : ExtractCall(text, target)

SpecMsms == InitMsms /\ [][NextMsms]_vars

\* the sum a computation without cache returns: the intensities of the
\* well-formed peaks of the text within MSMS_TOLERANCE of the target
Uncached(text, target) ==
    IF text = NaNCell THEN 0
    ELSE LET peaks == ParsePeaks(text)
             near == {n \in 1..Len(peaks) : Abs(peaks[n].mz - target) <= MSMS_TOLERANCE}
             sum[n \in 0..Len(peaks)] ==
                 IF n = 0 THEN 0
                 ELSE sum[n - 1] + (IF n \in near THEN peaks[n].intensity ELSE 0)
         IN sum[Len(peaks)]

\* C27: every call returns the sum an uncached computation returns; an
\* entry of the cache, once written, is never changed or removed; and two
\* different (text, target) pairs never share an entry.
C27_CacheTransparent ==
    [][\A text \in MsmsTexts, target \in MsmsTargets :
          ExtractCall(text, target) =>
              /\ ExtractIntensityCached(msms_cache, text, target).value
                    = Uncached(text, target)
              /\ msms_cache \subseteq msms_cache'
              /\ \A e \in msms_cache' :
                    \A t2 \in MsmsTexts \ {NaNCell}, g2 \in MsmsTargets :
                       e.key = CacheKey(t2, g2) => e.value = Uncached(t2, g2)
              /\ \A e1, e2 \in msms_cache' : e1.key = e2.key => e1 = e2]_vars

\* C27 witness: the cache holds the sums of one text for two targets and of
\* two texts for one target, one of the texts with a malformed word, and
\* the sums differ.
C27_Witness ==
    \E e1, e2, e3 \in msms_cache :
        /\ e1.key = CacheKey(P100 \o <<Sym(" ")>> \o P1005, 100 * 10000)
        /\ e2.key = CacheKey(P100 \o <<Sym(" ")>> \o P1005, 150 * 10000)
        /\ e3.key = CacheKey(<<Sym("x")>> \o P100 \o <<Sym(" ")>> \o P150, 100 * 10000)
        /\ e1.value = 47
        /\ e2.value = 0
        /\ e3.value = 0

(***************************************************************************)
(* SpecReads: query_by_inchikey when the chunked read of a partition may   *)
(* raise after some chunks, and the whole-file read of the except branch   *)
(* then succeeds or raises as well.                                        *)
(***************************************************************************)
\* the outcome of reading one partition: failed says that the chunked read
\* raises, after how many chunks were filtered before; fallback that the
\* whole-file read of line 280 succeeds
NoFailure == [failed |-> FALSE, after |-> 0, fallback |-> FALSE]
ReadOutcomes ==
    {NoFailure} \cup
    {[failed |-> TRUE, after |-> k, fallback |-> f] : k \in 0..(MaxRows - 1), f \in BOOLEAN}

\* lines 253-290 for one location under a read outcome: the filtered chunks
\* appended before the exception stay in all_data, and the except branch
\* appends the rows of the whole file whose key equals the resolved key
RowsOfRead(folder, loc, inchikey, outcome) ==
    LET part == PartNamed(folder, loc.path)
        chunks == Chunks(part.rows)
        done == Min({outcome.after, Len(chunks)})
    IN IF loc.t # "str" \/ ~folder.exists \/ ~part.readable \/ ~HasKeyColumn(part) THEN <<>>
       ELSE IF ~outcome.failed \/ outcome.after >= Len(chunks)
       THEN SelectSeq(part.rows, LAMBDA row : RowMatches(row, inchikey))
       ELSE ConcatAll([c \in 1..done |->
                         SelectSeq(chunks[c], LAMBDA row : RowMatches(row, inchikey))])
            \o (IF outcome.fallback
                THEN SelectSeq(part.rows,
                        LAMBDA row : StrStrip(AsStr(row.InChIKey)) = inchikey)
                ELSE <<>>)

RECURSIVE RowsOfReads(_, _, _, _)
RowsOfReads(folder, locs, inchikey, outcomes) ==
    IF locs = <<>> THEN <<>>
    ELSE RowsOfRead(folder, Head(locs), inchikey, outcomes[Head(locs).path])
           \o RowsOfReads(folder, Tail(locs), inchikey, outcomes)

\* query_by_inchikey against a built index under the read outcomes
QueryReads(index, folder, inchikey0, outcomes) ==
    LET r == ResolveKey(index, StrStrip(inchikey0))
    IN IF ~r.found THEN EmptyFrame
       ELSE LET rows == RowsOfReads(folder, IndexGet(index, r.key).items, r.key, outcomes)
            IN IF rows = <<>> THEN EmptyFrame ELSE Frame(rows)

ReadsKeys == {K_ab, K_AB, K_b}
InitReads ==
    /\ \E ks1 \in UNION {[1..m -> ReadsKeys] : m \in 0..MaxRows}, ks2 \in {<<>>, <<K_ab>>} :
          pesudo = KeyFolder(ks1, ks2)
    /\ intf = NoFolder
    /\ cache = NoFile
    /\ file_indexes = NoIndex
    /\ lookups = <<>>
    /\ RunIdle

\* one call of query_by_inchikey(PESUDO_TQDB_PATH, inchikey) whose reads of
\* the partitions have the outcomes drawn
QueryRead(inchikey, outcomes) ==
    \E q \in {QueryByInchikey(file_indexes, cache, pesudo, inchikey)} :
        /\ ~q.raised
        /\ file_indexes' = q.file_indexes
        /\ cache' = q.cache
        /\ lookups' = <<[key |-> inchikey, raised |-> FALSE,
                         frame |-> QueryReads(q.file_indexes.index, pesudo, inchikey,
                                              outcomes)]>>
        /\ UNCHANGED <<scan, msms_cache, pesudo, intf, runVars, trace>>

NextReads ==
    \E k \in ReadsKeys, outcomes \in [{"p1.csv", "p2.csv"} -> ReadOutcomes] :
        QueryRead(k, outcomes)

SpecReads == InitReads /\ [][NextReads]_vars

\* C28: the result of query_by_inchikey holds each matching row of the
\* source at most once, whatever the outcomes of the partition reads.
C28_EachRowOnce ==
    \A n \in 1..Len(lookups) :
        \A a, b \in 1..Len(lookups[n].frame.rows) :
            lookups[n].frame.rows[a] = lookups[n].frame.rows[b] => a = b

(***************************************************************************)
(* SpecSave: the batch runs of SpecRun, in which the write of a checkpoint *)
(* may also raise.                                                         *)
(***************************************************************************)
InitSave == InitRun /\ ~config.SINGLE_COMPOUND_MODE

NextSave == StartBatch \/ Iterate \/ IterateSaveFails \/ Finish

SpecSave == InitSave /\ [][NextSave]_vars

\* C29: at the end of every iteration of the batch loop processed_count +
\* error_count is the number of compounds iterated and processed_count the
\* number of rows in results.
C29_EachCompoundCountedOnce ==
    (Batch /\ pc \in {"loop", "done"}) =>
        /\ processed_count + error_count = i
        /\ processed_count = Len(results)

(***************************************************************************)
(* Claims on the candidates of the coverage method and the deduplication   *)
(* of its select_best_pairs (SpecScoring).                                 *)
(***************************************************************************)
MassPair(c) == {c.MSMS1, c.MSMS2}

\* C30: the candidate list generate_ion_pairs of the coverage method
\* produces never holds two candidates with the same unordered mass pair,
\* so the deduplication of select_best_pairs removes no scored candidate.
C30_NoDuplicatePairs ==
    PairsGeneratedNIST =>
        /\ \A m, n \in 1..Len(trace.candidates) :
              MassPair(trace.candidates[m]) = MassPair(trace.candidates[n]) => m = n
        /\ trace.stage = "scored" =>
              /\ Len(trace.scored) = Len(trace.candidates)
              /\ DedupNIST(trace.scored) = trace.scored

\* C30 witness: the ion set held two ions of one mass and a third ion; the
\* candidates were scored, among them a pair with that mass.
C30_Witness ==
    /\ PairsGeneratedNIST
    /\ trace.stage = "scored"
    /\ Len(trace.scored) >= 1
    /\ \E g, h \in 1..Len(pesudo.parts[1].rows) :
          /\ g # h
          /\ pesudo.parts[1].rows[g].MSMS = pesudo.parts[1].rows[h].MSMS
          /\ pesudo.parts[1].rows[g].MSMS \in MassPair(trace.scored[1].pair)

====
